---- MODULE Spec2Model ----
(***************************************************************************)
(* The For You feed client of IssueIndex: the paginated feed/search        *)
(* aggregation (ForYouClient), the sentinel-driven loader                  *)
(* (useInfiniteScroll) and the recommendation impression/click emitter.    *)
(*                                                                         *)
(* One UI event loop.  A change of a query or mutation notifies React,     *)
(* which re-renders the view in a later task (variable dirty); Render is   *)
(* the re-render together with the effects it commits.  Network responses  *)
(* and user input are handled after the pending re-render; the             *)
(* IntersectionObserver delivers its notifications from the browser's      *)
(* rendering step and may run before it.                                   *)
(***************************************************************************)
EXTENDS Integers, Sequences, FiniteSets, TLC

NULL == "null"
NONE == "none"
SP == " "

\* ------------------------------------------------------------------ bounds
MaxPage == 2      \* pages of a personalised feed
MaxLoaderPage == 3 \* pages the server holds for one query under scrolling
MaxCalls == 2     \* network requests counted per page of one query
MaxMut == 4       \* calls of logRecommendationEvents.mutate that are recorded
MaxFail == 1      \* failures of the recommendation-events endpoint
MaxClicks == 1    \* row activations
MaxMounts == 2    \* times the For You view is created
MaxBrowsePage == 3     \* pages BrowseClient's page state may reach
MaxBrowseRequests == 4 \* search requests of BrowseClient that are recorded
MaxBookmarkMuts == 2   \* create/delete bookmark mutations that are recorded
MaxCheckCalls == 3     \* bookmark-check requests that are recorded
MaxBookmarkFail == 1   \* bookmark mutations that fail on the network
MaxMeFetches == 2      \* /auth/me requests that are counted
MaxVisits == 1         \* navigations the user starts
MaxRedirects == 2      \* redirects that are recorded
MaxAuthFeedPage == 2   \* feed pages behind the auth gate
MaxObservers == 3      \* IntersectionObservers useInfiniteScroll creates
MaxElements == 2       \* sentinel elements that are created
MaxHookCalls == 2      \* fetchNextPage calls of those observers
MaxFeedRequests == 2   \* feed requests behind the auth gate that are recorded
MaxStoreBookmarkId == 5  \* highest bookmark id the mock store hands out
MaxStoreNoteId == 8      \* highest note id the mock store hands out
MaxStoreCalls == 4       \* calls of the functions of the mock store

\* ------------------------------------------------------------- input sets
QTexts == { <<>>, <<SP>>, <<"x">> }
FeedResults == { <<>>, <<"f2", "f1">> }
PlainFeedResults == { <<>>, <<"f2", "f1">>, <<"f1">> }
SearchResults == { <<"s2", "s1">>, <<"s1">> }
FeedNodes == { "f1", "f2" }
SearchNodes == { "s1", "s2" }
MaxPages == IF MaxPage > MaxLoaderPage THEN MaxPage ELSE MaxLoaderPage
\* recommendation_batch_id the server assigns to a personalised page
BatchNames == << "b1", "b2", "b3", "b4", "b5" >>
\* search_id the server assigns to a search response
SearchIdNames == << "sid1", "sid2", "sid3", "sid4", "sid5" >>
PageSize == 20
Batches == { BatchNames[p] : p \in 1..MaxPage }

\* ------------------------------------------------------- String.trim()
RECURSIVE TrimStart(_)
TrimStart(s) == IF s # <<>> /\ Head(s) = SP THEN TrimStart(Tail(s)) ELSE s

RECURSIVE TrimEnd(_)
TrimEnd(s) ==
    IF s # <<>> /\ s[Len(s)] = SP THEN TrimEnd(SubSeq(s, 1, Len(s) - 1)) ELSE s

Trim(s) == TrimEnd(TrimStart(s))

\* q.trim().length > 0
IsSearching(text) == Len(Trim(text)) > 0

\* --------------------------------------------------- cached query layer
FeedId == <<"feed">>
SearchId(text) == <<"search", text>>
\* the query texts a key is kept for
KeyTexts == QTexts \cup { <<"y">> }
SearchKeys == { t \in KeyTexts : IsSearching(t) }
QueryIds == { FeedId } \cup { SearchId(t) : t \in SearchKeys }

EmptyQuery == [pages |-> <<>>, fetching |-> "idle"]

NoResponse == [id |-> <<>>, page |-> 0]

VARIABLES
    q,            \* the q parameter of the URL
    queries,      \* query cache: id -> [pages, fetching]
    netCalls,     \* id -> page -> network requests issued for that page
    mounted,      \* the For You view exists
    mounts,       \* times the view was created
    dirty,        \* a re-render is scheduled
    view,         \* what the last render saw (closures of handlers and effects)
    scrollDeps,   \* dependency array of the useInfiniteScroll effect at its last run
    observer,     \* the IntersectionObserver of useInfiniteScroll
    visible,      \* the sentinel's box is within the root margin
    loggedRecommendationBatchIds,
    mutLog,       \* every logRecommendationEvents.mutate call, in order
    observedMut,  \* index in mutLog of the mutation the hook's observer follows
    failures,     \* failed recommendation-events requests
    clicks,       \* row activations handled
    selectedIssueId,
    searchLog,    \* every logSearchInteraction.mutate call
    loaderCalls,  \* fetchNextPage calls made by the loader
    calledSinceEdge, \* the query the loader last called fetchNextPage for, if
                    \* the sentinel has stayed rendered and its visibility
                    \* has not changed since; <<>> otherwise
    lateResponse, \* the query and page whose response last arrived while
                  \* another query was the active one
    \* BrowseClient (single-page useSearch with a page state)
    browsePage,     \* page (useState) of BrowseClient
    browseData,     \* query cache: <<text, page>> -> [data, fetching]
    browseRequests, \* every search request BrowseClient caused, in order
    \* bookmark handling of the list views
    issueNodeIds,     \* issueNodeIds: the node ids of the rendered items
    bookmarkCheck,    \* query cache: id list -> [data, fetching, invalidated]
    checkCalls,       \* every /bookmarks/check request, in order
    mockBookmarks,    \* the server's store: node id -> bookmark id or NULL
    nextBookmarkId,   \* nextBookmarkId of the store
    bookmarkMuts,     \* every createBookmark/deleteBookmark mutate call
    bookmarkFailures, \* bookmark mutations that failed on the network
    \* auth gating: middleware, useAuthGuard, useMe
    pathname,       \* the page the browser shows
    navigation,     \* the path of a request under way, <<>> without one
    visits,         \* navigations the user started
    hasSession,     \* the browser holds a session_id cookie
    sessionValid,   \* the API accepts the session
    rejected,       \* /auth/me answered 401 and the user has not signed in since
    meQuery,        \* the ["auth", "me"] query: [status, fetching, error, hasData]
    meFetches,      \* /auth/me requests issued
    guardDeps,      \* dependency array of the page's auth effect at its last run
    guardView,      \* what the page's last render saw
    authDirty,      \* a re-render of the page is scheduled
    redirectLog,    \* every redirect, of the middleware and of the pages
    authFeed,       \* the feed query of the guarded page: [pages, fetching, failed]
    feedRequestLog, \* every feed request of the guarded page
    \* useInfiniteScroll, one observer object per effect run
    hookMounted,    \* the component that calls the hook exists
    hookProps,      \* hasNextPage, isFetchingNextPage, fetchNextPage of the last render
    sentinelEl,     \* sentinelRef.current: the element's number, 0 for null
    elements,       \* sentinel elements created
    hookDeps,       \* dependency array of the effect at its last run
    observers,      \* every IntersectionObserver the effect created
    hookCleanup,    \* the observer the pending cleanup disconnects, 0 for none
    hookCalls,      \* every fetchNextPage call of an observer
    \* the mock bookmark store (mocks/data/bookmarks.ts)
    bookmarkObjects,      \* the Bookmark objects by id; initialBookmarks and
                          \* the array mockBookmarks both refer to them
    storeBookmarks,       \* the array mockBookmarks of the module: the ids of
                          \* the objects it refers to, in order
    mockNotes,            \* mockNotes: bookmark id -> the ids of its notes
    storeNextBookmarkId,  \* nextBookmarkId of the module
    nextNoteId,           \* nextNoteId of the module
    storeCalls            \* calls of the store's functions so far

vars == << q, queries, netCalls, mounted, mounts, dirty, view, scrollDeps,
           observer, visible, loggedRecommendationBatchIds, mutLog,
           observedMut, failures, clicks, selectedIssueId, searchLog,
           loaderCalls, calledSinceEdge, lateResponse,
           browsePage, browseData, browseRequests,
           issueNodeIds, bookmarkCheck, checkCalls, mockBookmarks,
           nextBookmarkId, bookmarkMuts, bookmarkFailures,
           pathname, navigation, visits, hasSession, sessionValid, rejected,
           meQuery, meFetches, guardDeps, guardView, authDirty, redirectLog,
           authFeed, feedRequestLog,
           hookMounted, hookProps, sentinelEl, elements, hookDeps, observers,
           hookCleanup, hookCalls,
           bookmarkObjects, storeBookmarks, mockNotes, storeNextBookmarkId,
           nextNoteId, storeCalls >>

browseVars == << browsePage, browseData, browseRequests >>

bookmarkVars == << issueNodeIds, bookmarkCheck, checkCalls, mockBookmarks,
                   nextBookmarkId, bookmarkMuts, bookmarkFailures >>

authVars == << pathname, navigation, visits, hasSession, sessionValid,
              rejected, meQuery, meFetches, guardDeps, guardView, authDirty,
              redirectLog, authFeed, feedRequestLog >>

hookVars == << hookMounted, hookProps, sentinelEl, elements, hookDeps,
              observers, hookCleanup, hookCalls >>

storeVars == << bookmarkObjects, storeBookmarks, mockNotes,
               storeNextBookmarkId, nextNoteId, storeCalls >>

\* the state outside the list views
appVars == << authVars, hookVars, storeVars >>

\* the state of the views an action of ForYouClient does not touch
otherViews == << browseVars, bookmarkVars, appVars >>

\* the state of ForYouClient's feed, loader and telemetry
forYouVars == << q, queries, netCalls, mounted, mounts, dirty, view,
                 scrollDeps, observer, visible, loggedRecommendationBatchIds,
                 mutLog, observedMut, failures, clicks, selectedIssueId,
                 searchLog, loaderCalls, calledSinceEdge, lateResponse >>

Page(results, page, has_more, batch, sid) ==
    [results |-> results, page |-> page, has_more |-> has_more,
     recommendation_batch_id |-> batch, search_id |-> sid]

\* activeQuery: the search query while searching, the feed query otherwise
ActiveId(text) == IF IsSearching(text) THEN SearchId(text) ELSE FeedId

\* the source whose fetchNextPage the loader holds
ActiveSource(text) == IF IsSearching(text) THEN "search" ELSE "feed"

\* mutant: the pages of every search key, whatever the current key is
SearchPagesOfAnyKey(qs, text) ==
    IF text \in SearchKeys
    THEN qs[SearchId(<<"x">>)].pages \o qs[SearchId(<<"y">>)].pages
    ELSE <<>>

\* data?.pages ?? [] of the search query for the current key
SearchPagesOf(qs, text) ==
    IF text \in SearchKeys THEN qs[SearchId(text)].pages ELSE <<>>

\* hasNextPage: the last resolved page says has_more
HasNextPage(query) ==
    query.pages # <<>> /\ query.pages[Len(query.pages)].has_more

IsFetchingNextPage(query) == query.fetching = "next"

IsLoading(query) == query.pages = <<>> /\ query.fetching = "initial"

\* a mounted, enabled query with no data fetches its first page
StartInitial(qs, id) ==
    IF qs[id].pages = <<>> /\ qs[id].fetching = "idle"
    THEN [qs EXCEPT ![id].fetching = "initial"]
    ELSE qs

CountInitial(qs, calls, id) ==
    IF qs[id].pages = <<>> /\ qs[id].fetching = "idle"
    THEN [calls EXCEPT ![id][1] = @ + 1]
    ELSE calls

\* ------------------------------------------------------------ aggregation
\* mutant: a result already in the list is dropped
RECURSIVE FlatMapResultsDeduplicated(_)
FlatMapResultsDeduplicated(pages) ==
    IF pages = <<>> THEN <<>>
    ELSE LET front == FlatMapResultsDeduplicated(
                          SubSeq(pages, 1, Len(pages) - 1))
             seen == { front[i] : i \in DOMAIN front }
         IN front \o SelectSeq(pages[Len(pages)].results,
                               LAMBDA n : n \notin seen)

\* pages.flatMap((page) => page.results)
RECURSIVE FlatMapResults(_)
FlatMapResults(pages) ==
    IF pages = <<>> THEN <<>>
    ELSE Head(pages).results \o FlatMapResults(Tail(pages))

\* mutant: the feed's items stay in the list while searching
ItemsMerged(text, searchPages, feedPages) ==
    IF IsSearching(text)
    THEN FlatMapResults(searchPages) \o FlatMapResults(feedPages)
    ELSE FlatMapResults(feedPages)

\* the items memo of ForYouClient (each item stands for its node_id)
Items(text, searchPages, feedPages) ==
    IF IsSearching(text)
    THEN FlatMapResults(searchPages)
    ELSE FlatMapResults(feedPages)

\* the items memo of BrowseClient
BrowseItems(activePages) == FlatMapResults(activePages)

ViewItems == Items(view.q, view.searchPages, view.feedPages)

\* the sentinel <div> is in the rendered tree
SentinelRendered(v) ==
    /\ ~v.isLoading
    /\ Items(v.q, v.searchPages, v.feedPages) # <<>>
    /\ v.hasNextPage

Snapshot(text, qs) ==
    [q |-> text,
     searchPages |-> SearchPagesOf(qs, text),
     feedPages |-> qs[FeedId].pages,
     hasNextPage |-> HasNextPage(qs[ActiveId(text)]),
     isFetchingNextPage |-> IsFetchingNextPage(qs[ActiveId(text)]),
     isLoading |-> IsLoading(qs[ActiveId(text)])]

\* ------------------------------------------------------------- telemetry
\* the events of one page's impression call
ImpressionEvents(page) ==
    [idx \in 1..Len(page.results) |->
        [event_type |-> "impression",
         issue_node_id |-> page.results[idx],
         position |-> idx]]

\* logRecommendationEvents.mutate(variables, options): the hook's observer
\* leaves the mutation it followed and follows the new one, so the options
\* of the earlier call are dropped
Mutate(st, kind, batchId, events, hasOnError) ==
    [st EXCEPT
        !.log = Append(@, [kind |-> kind, batch |-> batchId, events |-> events,
                           status |-> "pending", onError |-> hasOnError,
                           mount |-> mounts]),
        !.observed = Len(st.log) + 1]

\* mutant: the batch is not marked before its request is sent
RECURSIVE ImpressionLoopUnmarked(_, _, _)
ImpressionLoopUnmarked(pages, i, st) ==
    IF i > Len(pages) THEN st
    ELSE LET page == pages[i]
             batchId == page.recommendation_batch_id
             events == ImpressionEvents(page)
         IN IF batchId = NULL \/ batchId \in st.logged
            THEN ImpressionLoopUnmarked(pages, i + 1, st)
            ELSE IF Len(events) = 0
            THEN ImpressionLoopUnmarked(pages, i + 1, st)
            ELSE ImpressionLoopUnmarked(pages, i + 1,
                    Mutate(st, "impression", batchId, events, TRUE))

\* the for loop of the impression effect
RECURSIVE ImpressionLoop(_, _, _)
ImpressionLoop(pages, i, st) ==
    IF i > Len(pages) THEN st
    ELSE LET page == pages[i]
             batchId == page.recommendation_batch_id
             events == ImpressionEvents(page)
         IN IF batchId = NULL \/ batchId \in st.logged
            THEN ImpressionLoop(pages, i + 1, st)
            ELSE IF Len(events) = 0
            THEN ImpressionLoop(pages, i + 1, st)
            ELSE ImpressionLoop(pages, i + 1,
                    Mutate([st EXCEPT !.logged = @ \cup {batchId}],
                           "impression", batchId, events, TRUE))

\* mutant: impressions are sent while searching too
ImpressionEffectUnguarded(text, feedPages, st) ==
    ImpressionLoop(feedPages, 1, st)

\* the impression useEffect
ImpressionEffect(text, feedPages, st) ==
    IF IsSearching(text) THEN st ELSE ImpressionLoop(feedPages, 1, st)

\* ----------------------------------------------------------------- loader
Detached ==
    [attached |-> FALSE, hasNextPage |-> FALSE, isFetchingNextPage |-> FALSE,
     source |-> "feed", last |-> NONE]

\* new IntersectionObserver(callback) + observe(el): the callback closes over
\* the values of this render
Observe(v) ==
    [attached |-> TRUE, hasNextPage |-> v.hasNextPage,
     isFetchingNextPage |-> v.isFetchingNextPage,
     source |-> ActiveSource(v.q), last |-> NONE]

\* [hasNextPage, isFetchingNextPage, fetchNextPage]
ScrollDeps(v) == << v.hasNextPage, v.isFetchingNextPage, ActiveSource(v.q) >>

\* the useInfiniteScroll effect: on changed dependencies the cleanup
\* disconnects the observer and, if the sentinel is rendered, a new one is
\* attached; an observer whose element left the tree is dead
ScrollEffect(v, deps, obs) ==
    IF ScrollDeps(v) # deps
    THEN IF SentinelRendered(v) THEN Observe(v) ELSE Detached
    ELSE IF SentinelRendered(v) THEN obs ELSE Detached

\* ----------------------------------------------------------------- render
EmptyView == Snapshot(<<>>, [id \in QueryIds |-> EmptyQuery])

\* ------------------------------------------------------------ BrowseClient
\* useSearch({ query: q, filters, page, pageSize: 20, enabled }): one cached
\* query per (query, page); its state is [data, fetching], data being <<>>
\* or a one-element sequence holding the response
BrowseKeys == SearchKeys \X (1..MaxBrowsePage)

BrowseEmpty == [data |-> <<>>, fetching |-> FALSE]

BrowseInit ==
    /\ browsePage = 1
    /\ browseData = [k \in BrowseKeys |-> BrowseEmpty]
    /\ browseRequests = <<>>

\* what the server may answer to a search request for a page
BrowseResponses(p) ==
    { [results |-> <<"s1">>, page |-> p, has_more |-> more] :
        more \in { m \in BOOLEAN : m => p < MaxBrowsePage } }

\* searchQuery of BrowseClient for the key (text, p)
BrowseQuery(data, text, p) ==
    IF IsSearching(text) THEN data[<<text, p>>] ELSE BrowseEmpty

\* the query observed under a new key fetches unless it is disabled or is
\* being fetched already (no staleTime: cached data is refetched)
BrowseShouldFetch(data, text, p) ==
    IsSearching(text) /\ ~data[<<text, p>>].fetching

BrowseFetch(data, text, p) ==
    IF BrowseShouldFetch(data, text, p)
    THEN [data EXCEPT ![<<text, p>>].fetching = TRUE]
    ELSE data

BrowseRequestsOfFetch(data, reqs, text, p) ==
    IF BrowseShouldFetch(data, text, p)
    THEN Append(reqs, [query |-> text, page |-> p])
    ELSE reqs

\* items of BrowseClient while searching: the results of the one page held
BrowseSearchItems(query) ==
    IF query.data = <<>> THEN <<>> ELSE query.data[1].results

\* hasMore
BrowseHasMore(text, query) ==
    IsSearching(text) /\ query.data # <<>> /\ query.data[1].has_more

\* the Load more button is on the page
LoadMoreRendered(text, query) ==
    /\ ~(query.data = <<>> /\ query.fetching)
    /\ BrowseSearchItems(query) # <<>>
    /\ BrowseHasMore(text, query)

\* the q parameter of the URL of BrowseClient changes: page keeps its value
BrowseChangeQuery(text) ==
    /\ text # q
    /\ Len(browseRequests) < MaxBrowseRequests
    /\ q' = text
    /\ browsePage' = browsePage
    /\ browseData' = BrowseFetch(browseData, text, browsePage)
    /\ browseRequests' =
          BrowseRequestsOfFetch(browseData, browseRequests, text, browsePage)
    /\ UNCHANGED << queries, netCalls, mounted, mounts, dirty, view,
                    scrollDeps, observer, visible,
                    loggedRecommendationBatchIds, mutLog, observedMut,
                    failures, clicks, selectedIssueId, searchLog,
                    loaderCalls, calledSinceEdge, lateResponse,
                    bookmarkVars, appVars >>

\* handleLoadMore: setPage((p) => p + 1), and the render that follows
HandleLoadMore ==
    /\ LoadMoreRendered(q, BrowseQuery(browseData, q, browsePage))
    /\ browsePage < MaxBrowsePage
    /\ Len(browseRequests) < MaxBrowseRequests
    /\ browsePage' = browsePage + 1
    /\ browseData' = BrowseFetch(browseData, q, browsePage + 1)
    /\ browseRequests' =
          BrowseRequestsOfFetch(browseData, browseRequests, q, browsePage + 1)
    /\ UNCHANGED << q, queries, netCalls, mounted, mounts, dirty, view,
                    scrollDeps, observer, visible,
                    loggedRecommendationBatchIds, mutLog, observedMut,
                    failures, clicks, selectedIssueId, searchLog,
                    loaderCalls, calledSinceEdge, lateResponse,
                    bookmarkVars, appVars >>

\* the response of a search request of BrowseClient arrives
BrowseDeliver(key) ==
    /\ browseData[key].fetching
    /\ \E r \in BrowseResponses(key[2]) :
          browseData' = [browseData EXCEPT ![key] =
                            [data |-> <<r>>, fetching |-> FALSE]]
    /\ UNCHANGED << q, queries, netCalls, mounted, mounts, dirty, view,
                    scrollDeps, observer, visible,
                    loggedRecommendationBatchIds, mutLog, observedMut,
                    failures, clicks, selectedIssueId, searchLog,
                    loaderCalls, calledSinceEdge, lateResponse,
                    browsePage, browseRequests, bookmarkVars, appVars >>

\* ------------------------------------------------------ bookmark handling
\* values of issueNodeIds = items.map((i) => i.nodeId)
IdLists == { <<>>, <<"f1">>, <<"f1", "f2">> }

BookmarkNodes == { "f1", "f2" }

\* ids the store hands out: bm_${nextBookmarkId++}
BookmarkIdNames == << "bm1", "bm2", "bm3", "bm4" >>

\* the item of the list with a node id (f1 has no link and no preview)
Issue(nodeId) ==
    [nodeId |-> nodeId,
     repoName |-> IF nodeId = "f1" THEN "repo1" ELSE "repo2",
     title |-> IF nodeId = "f1" THEN "title1" ELSE "title2",
     githubUrl |-> IF nodeId = "f1" THEN <<>> ELSE <<"url2">>,
     bodyPreview |-> IF nodeId = "f1" THEN <<>> ELSE <<"preview2">>]

\* the variables of createBookmark.mutate: a missing link is replaced by
\* `https://github.com/${issue.repoName}`, a missing preview by ""
CreatePayload(issue) ==
    [issue_node_id |-> issue.nodeId,
     github_url |-> IF issue.githubUrl # <<>> THEN issue.githubUrl
                    ELSE <<"https://github.com/", issue.repoName>>,
     title_snapshot |-> issue.title,
     body_snapshot |-> IF issue.bodyPreview # <<>> THEN issue.bodyPreview
                       ELSE <<"">>]

CheckEmpty == [data |-> <<>>, fetching |-> FALSE, invalidated |-> FALSE]

BookmarkInit ==
    /\ issueNodeIds = <<>>
    /\ bookmarkCheck = [ids \in IdLists |-> CheckEmpty]
    /\ checkCalls = <<>>
    /\ mockBookmarks = [n \in BookmarkNodes |-> IF n = "f2" THEN "bm0" ELSE NULL]
    /\ nextBookmarkId = 1
    /\ bookmarkMuts = <<>>
    /\ bookmarkFailures = 0

\* mutant: the check runs for an empty list too
CheckEnabledAlways(ids) == TRUE

\* enabled: issueNodeIds.length > 0
CheckEnabled(ids) == Len(ids) > 0

\* the observed check query fetches when it is enabled, not being fetched,
\* and has no data or invalidated data
CheckShouldFetch(cache, ids) ==
    /\ CheckEnabled(ids)
    /\ ~cache[ids].fetching
    /\ cache[ids].data = <<>> \/ cache[ids].invalidated

StartCheck(cache, ids) ==
    IF CheckShouldFetch(cache, ids)
    THEN [cache EXCEPT ![ids].fetching = TRUE]
    ELSE cache

CallsOfStartCheck(cache, calls, ids) ==
    IF CheckShouldFetch(cache, ids) THEN Append(calls, ids) ELSE calls

\* bookmarksMap = bookmarkCheckQuery.data?.bookmarks ?? {}
BookmarksMap(cache, ids) ==
    IF cache[ids].data = <<>> THEN <<>> ELSE cache[ids].data[1]

\* bookmarksMap[issue.nodeId]
BookmarkIdOf(map, nodeId) ==
    IF nodeId \in DOMAIN map THEN map[nodeId] ELSE NULL

\* isSaved={!!bookmarksMap[issue.nodeId]}
IsSaved(map, nodeId) == BookmarkIdOf(map, nodeId) # NULL

\* checkBookmarks(issueNodeIds) of the store
CheckBookmarks(store, ids) ==
    [n \in { ids[i] : i \in DOMAIN ids } |-> store[n]]

\* mutant: a successful mutation leaves the check queries as they are
InvalidateBookmarksSkipped(cache, ids) == cache

\* qc.invalidateQueries({ queryKey: ["bookmarks"] }): every check query is
\* marked invalidated; the observed one, if enabled, is fetched again (a
\* running fetch of it is cancelled and replaced)
InvalidateBookmarks(cache, ids) ==
    [k \in IdLists |->
        IF k = ids /\ CheckEnabled(ids)
        THEN [cache[k] EXCEPT !.invalidated = TRUE, !.fetching = TRUE]
        ELSE [cache[k] EXCEPT !.invalidated = TRUE]]

CallsOfInvalidate(calls, ids) ==
    IF CheckEnabled(ids) THEN Append(calls, ids) ELSE calls

\* mutant: the index entry is flipped when the mutation starts
CacheOnMutateOptimistic(cache, ids, nodeId) ==
    IF cache[ids].data = <<>> THEN cache
    ELSE [cache EXCEPT ![ids].data =
            << [n \in DOMAIN cache[ids].data[1] |->
                  IF n # nodeId THEN cache[ids].data[1][n]
                  ELSE IF cache[ids].data[1][n] = NULL THEN "optimistic"
                  ELSE NULL] >>]

\* useCreateBookmark / useDeleteBookmark define no onMutate: starting a
\* mutation leaves the query cache as it is
CacheOnMutate(cache, ids, nodeId) == cache

\* mutant: a delete is issued for an item that is not saved
ToggleKindInverted(bookmarkId) ==
    IF bookmarkId # NULL THEN "create" ELSE "delete"

\* if (bookmarkId) delete else create
ToggleKind(bookmarkId) ==
    IF bookmarkId # NULL THEN "delete" ELSE "create"

\* a render with another list of items
ShowItems(ids) ==
    /\ ids # issueNodeIds
    /\ Len(checkCalls) < MaxCheckCalls
    /\ issueNodeIds' = ids
    /\ bookmarkCheck' = StartCheck(bookmarkCheck, ids)
    /\ checkCalls' = CallsOfStartCheck(bookmarkCheck, checkCalls, ids)
    /\ UNCHANGED << mockBookmarks, nextBookmarkId, bookmarkMuts,
                    bookmarkFailures, forYouVars, browseVars, appVars >>

\* the response of the running bookmark check of an id list arrives
DeliverCheck(ids) ==
    /\ bookmarkCheck[ids].fetching
    /\ bookmarkCheck' = [bookmarkCheck EXCEPT ![ids] =
          [data |-> << CheckBookmarks(mockBookmarks, ids) >>,
           fetching |-> FALSE, invalidated |-> FALSE]]
    /\ UNCHANGED << issueNodeIds, checkCalls, mockBookmarks, nextBookmarkId,
                    bookmarkMuts, bookmarkFailures, forYouVars, browseVars, appVars >>

\* handleToggleBookmark(issue) for a rendered item
ToggleBookmark(nodeId) ==
    /\ \E i \in DOMAIN issueNodeIds : issueNodeIds[i] = nodeId
    /\ Len(bookmarkMuts) < MaxBookmarkMuts
    /\ LET bookmarkId == BookmarkIdOf(BookmarksMap(bookmarkCheck, issueNodeIds),
                                      nodeId)
           kind == ToggleKind(bookmarkId)
       IN bookmarkMuts' = Append(bookmarkMuts,
             [kind |-> kind,
              nodeId |-> nodeId,
              bookmarkId |-> bookmarkId,
              payload |-> IF kind = "create" THEN << CreatePayload(Issue(nodeId)) >>
                          ELSE <<>>,
              status |-> "pending",
              result |-> NULL,
              order |-> 0])
    /\ bookmarkCheck' = CacheOnMutate(bookmarkCheck, issueNodeIds, nodeId)
    /\ UNCHANGED << issueNodeIds, checkCalls, mockBookmarks, nextBookmarkId,
                    bookmarkFailures >>

\* a toggle in a list view, the rest of the application left alone
HandleToggleBookmark(nodeId) ==
    /\ ToggleBookmark(nodeId)
    /\ UNCHANGED << forYouVars, browseVars, appVars >>

\* the place of the next settlement in the order of settlements
NextOrder ==
    Cardinality({ j \in DOMAIN bookmarkMuts :
                    bookmarkMuts[j].status # "pending" }) + 1

\* the bookmark a create request gives: the existing one of the issue, or a
\* new one
CreatedId(store, next, nodeId) ==
    IF store[nodeId] # NULL THEN store[nodeId] ELSE BookmarkIdNames[next]

\* the request of bookmarkMuts[i] is answered by the server
SettleBookmarkSuccess(i) ==
    /\ i \in DOMAIN bookmarkMuts
    /\ bookmarkMuts[i].status = "pending"
    /\ Len(checkCalls) < MaxCheckCalls
    /\ LET m == bookmarkMuts[i]
       IN IF m.kind = "create"
          THEN /\ mockBookmarks' =
                    [mockBookmarks EXCEPT ![m.nodeId] =
                        CreatedId(mockBookmarks, nextBookmarkId, m.nodeId)]
               /\ nextBookmarkId' = IF mockBookmarks[m.nodeId] # NULL
                                    THEN nextBookmarkId ELSE nextBookmarkId + 1
               /\ bookmarkMuts' = [bookmarkMuts EXCEPT
                    ![i].status = "success",
                    ![i].order = NextOrder,
                    ![i].result =
                        CreatedId(mockBookmarks, nextBookmarkId, m.nodeId)]
          ELSE /\ \E n \in BookmarkNodes : mockBookmarks[n] = m.bookmarkId
               /\ mockBookmarks' =
                    [n \in BookmarkNodes |->
                        IF mockBookmarks[n] = m.bookmarkId THEN NULL
                        ELSE mockBookmarks[n]]
               /\ bookmarkMuts' = [bookmarkMuts EXCEPT ![i].status = "success",
                                                      ![i].order = NextOrder]
               /\ UNCHANGED nextBookmarkId
    /\ bookmarkCheck' = InvalidateBookmarks(bookmarkCheck, issueNodeIds)
    /\ checkCalls' = CallsOfInvalidate(checkCalls, issueNodeIds)
    /\ UNCHANGED << issueNodeIds, bookmarkFailures, forYouVars, browseVars, appVars >>

\* the request of bookmarkMuts[i] fails: the network fails, or the server
\* answers 404 to the delete of a bookmark it does not hold; mutate() keeps
\* the error in the mutation's state
SettleBookmarkFailure(i) ==
    /\ i \in DOMAIN bookmarkMuts
    /\ bookmarkMuts[i].status = "pending"
    /\ LET m == bookmarkMuts[i]
           notFound == /\ m.kind = "delete"
                       /\ \A n \in BookmarkNodes : mockBookmarks[n] # m.bookmarkId
       IN /\ notFound \/ bookmarkFailures < MaxBookmarkFail
          /\ bookmarkFailures' = IF notFound THEN bookmarkFailures
                                 ELSE bookmarkFailures + 1
    /\ bookmarkMuts' = [bookmarkMuts EXCEPT ![i].status = "error",
                                           ![i].order = NextOrder]
    /\ UNCHANGED << issueNodeIds, bookmarkCheck, checkCalls, mockBookmarks,
                    nextBookmarkId, forYouVars, browseVars, appVars >>

\* ------------------------------------------- bookmark handling of Browse
Digits == { "0", "1", "2", "3", "4", "5", "6", "7", "8", "9" }

\* the text of a result's node_id
NodeIdText(nodeId) ==
    IF nodeId = "f1" THEN <<"I", "_", "4", "2">> ELSE <<"I", "_", "k", "w">>

\* node_id.match(/\d+$/)?.[0]: the digits a text ends with; <<>> without
\* a match
RECURSIVE TrailingDigits(_)
TrailingDigits(s) ==
    IF s # <<>> /\ s[Len(s)] \in Digits
    THEN Append(TrailingDigits(SubSeq(s, 1, Len(s) - 1)), s[Len(s)])
    ELSE <<>>

\* the item BrowseClient builds of a result: the link is
\* `https://github.com/${r.repo_name}/issues/${issueNumber}` when the
\* node_id ends with digits, null (<<>>) otherwise
BrowseIssue(nodeId) ==
    LET issueNumber == TrailingDigits(NodeIdText(nodeId))
        repoName == IF nodeId = "f1" THEN "repo1" ELSE "repo2"
    IN [nodeId |-> nodeId,
        repoName |-> repoName,
        title |-> IF nodeId = "f1" THEN "title1" ELSE "title2",
        githubUrl |-> IF issueNumber # <<>>
                      THEN <<"https://github.com/", repoName, "/issues/",
                             issueNumber>>
                      ELSE <<>>,
        bodyPreview |-> IF nodeId = "f1" THEN <<>> ELSE <<"preview2">>]

\* the variables of createBookmark.mutate in BrowseClient: the link is
\* always `https://github.com/${issue.repoName}`
BrowseCreatePayload(issue) ==
    [issue_node_id |-> issue.nodeId,
     github_url |-> <<"https://github.com/", issue.repoName>>,
     title_snapshot |-> issue.title,
     body_snapshot |-> IF issue.bodyPreview # <<>> THEN issue.bodyPreview
                       ELSE <<"">>]

\* handleToggleBookmark(issue) of BrowseClient for a rendered item
BrowseHandleToggleBookmark(nodeId) ==
    /\ \E i \in DOMAIN issueNodeIds : issueNodeIds[i] = nodeId
    /\ Len(bookmarkMuts) < MaxBookmarkMuts
    /\ LET bookmarkId == BookmarkIdOf(BookmarksMap(bookmarkCheck, issueNodeIds),
                                      nodeId)
           kind == ToggleKind(bookmarkId)
       IN bookmarkMuts' = Append(bookmarkMuts,
             [kind |-> kind,
              nodeId |-> nodeId,
              bookmarkId |-> bookmarkId,
              payload |-> IF kind = "create"
                          THEN << BrowseCreatePayload(BrowseIssue(nodeId)) >>
                          ELSE <<>>,
              status |-> "pending",
              result |-> NULL,
              order |-> 0])
    /\ bookmarkCheck' = CacheOnMutate(bookmarkCheck, issueNodeIds, nodeId)
    /\ UNCHANGED << issueNodeIds, checkCalls, mockBookmarks, nextBookmarkId,
                    bookmarkFailures, forYouVars, browseVars, appVars >>

\* ------------------------------------------------------------ auth gating
\* a path is the sequence of its segments: /for-you is <<"for-you">>
ForYouPath == <<"for-you">>
LoginPath == <<"login">>
DashboardPath == <<"dashboard">>
AuthPaths == { ForYouPath, LoginPath, DashboardPath }
NoPage == <<>>
NoNavigation == <<>>

\* PROTECTED_PREFIXES
ProtectedPrefixes ==
    { <<"dashboard">>, <<"for-you">>, <<"saved">>, <<"profile">>,
      <<"settings">> }

\* pathname === prefix || pathname.startsWith(`${prefix}/`)
IsPrefix(prefix, path) ==
    /\ Len(path) >= Len(prefix)
    /\ SubSeq(path, 1, Len(prefix)) = prefix

IsProtected(path) == \E prefix \in ProtectedPrefixes : IsPrefix(prefix, path)

\* middleware(request): the path it redirects to, <<>> for
\* NextResponse.next()
Middleware(path, cookie) ==
    IF IsProtected(path) /\ ~cookie THEN LoginPath
    ELSE IF path = LoginPath /\ cookie THEN DashboardPath
    ELSE <<>>

NoError == [code |-> "none", id |-> 0]

MeIdle == [status |-> "pending", fetching |-> FALSE, error |-> NoError,
           hasData |-> FALSE]

FeedIdle == [pages |-> 0, fetching |-> "idle", failed |-> FALSE]

NoView == [isLoading |-> FALSE, isAuthenticated |-> FALSE,
           isRedirecting |-> FALSE, sentinel |-> FALSE,
           hasNextPage |-> FALSE, isFetchingNextPage |-> FALSE]

\* a query starts fetching: without data it goes back to pending and drops
\* its error, with data it keeps its status and error until the answer
FetchState(query) ==
    IF query.hasData
    THEN [query EXCEPT !.fetching = TRUE]
    ELSE [query EXCEPT !.fetching = TRUE, !.status = "pending",
                       !.error = NoError]

\* useMe() in a page that mounts: a query without data is fetched
MeFetchesOnMount(query) == ~query.fetching /\ ~query.hasData

MeOnMount(query) ==
    IF MeFetchesOnMount(query) THEN FetchState(query) ELSE query

\* useFeed in a page that mounts
FeedFetchesOnMount(feed) == feed.pages = 0 /\ feed.fetching = "idle"

FeedOnMount(feed) ==
    IF FeedFetchesOnMount(feed)
    THEN [feed EXCEPT !.fetching = "initial", !.failed = FALSE]
    ELSE feed

\* mutant: every failure of the check counts as a 401
Is401Any(err) == err.code # "none"

\* axios.isAxiosError(err) && err.response?.status === 401
Is401(err) == err.code = "401"

\* isLoading: meQuery.isLoading (pending and fetching)
GuardIsLoading(query) == query.status = "pending" /\ query.fetching

\* isAuthenticated: meQuery.isSuccess
GuardIsAuthenticated(query) == query.status = "success"

\* isRedirecting: meQuery.isError && is401(meQuery.error)
GuardIsRedirecting(query) == query.status = "error" /\ Is401(query.error)

\* [meQuery.isError, meQuery.error, router]
GuardDeps(query) == << query.status = "error", query.error >>

\* [meQuery.isSuccess, router] of LoginPage
LoginDeps(query) == << query.status = "success" >>

FeedHasNextPage(feed) == feed.pages > 0 /\ feed.pages < MaxAuthFeedPage

\* what a render of the page sees; the sentinel is rendered below a
\* non-empty list with a next page, and not at all while redirecting
AuthSnapshot(path, query, feed) ==
    [isLoading |-> GuardIsLoading(query),
     isAuthenticated |-> GuardIsAuthenticated(query),
     isRedirecting |-> GuardIsRedirecting(query),
     sentinel |-> /\ path = ForYouPath
                  /\ ~GuardIsRedirecting(query)
                  /\ feed.fetching # "initial"
                  /\ ~feed.failed
                  /\ FeedHasNextPage(feed),
     hasNextPage |-> FeedHasNextPage(feed),
     isFetchingNextPage |-> feed.fetching = "next"]

Redirect(by, from, to) ==
    [by |-> by, from |-> from, to |-> to, rejected |-> rejected,
     me |-> meQuery]

AuthInit ==
    /\ pathname = NoPage
    /\ navigation = NoNavigation
    /\ visits = 0
    /\ hasSession = TRUE
    /\ sessionValid = TRUE
    /\ rejected = FALSE
    /\ meQuery = MeIdle
    /\ meFetches = 0
    /\ guardDeps = <<>>
    /\ guardView = NoView
    /\ authDirty = FALSE
    /\ redirectLog = <<>>
    /\ authFeed = FeedIdle
    /\ feedRequestLog = <<>>


\* the state an action of the auth gating leaves alone
nonAuthVars == << forYouVars, browseVars, bookmarkVars, hookVars, storeVars >>

\* the user opens a page
Visit(path) ==
    /\ navigation = NoNavigation
    /\ visits < MaxVisits
    /\ navigation' = path
    /\ visits' = visits + 1
    /\ UNCHANGED << pathname, hasSession, sessionValid, rejected, meQuery,
                    meFetches, guardDeps, guardView, authDirty, redirectLog,
                    authFeed, feedRequestLog, nonAuthVars >>

\* the request for a page passes the middleware: it is redirected, or the
\* page is shown and its hooks mount
HandleRequest ==
    /\ navigation # NoNavigation
    /\ LET target == Middleware(navigation, hasSession)
       IN IF target # <<>>
          THEN /\ Len(redirectLog) < MaxRedirects
               /\ navigation' = target
               /\ redirectLog' =
                     Append(redirectLog,
                            Redirect("middleware", navigation, target))
               /\ UNCHANGED << pathname, meQuery, meFetches, guardDeps,
                               guardView, authDirty, authFeed,
                               feedRequestLog >>
          ELSE IF navigation = pathname
          THEN /\ navigation' = NoNavigation
               /\ UNCHANGED << pathname, meQuery, meFetches, guardDeps,
                               guardView, authDirty, authFeed,
                               feedRequestLog, redirectLog >>
          ELSE /\ MeFetchesOnMount(meQuery) => meFetches < MaxMeFetches
               /\ Len(feedRequestLog) < MaxFeedRequests
               /\ pathname' = navigation
               /\ navigation' = NoNavigation
               /\ meQuery' = MeOnMount(meQuery)
               /\ meFetches' = IF MeFetchesOnMount(meQuery)
                               THEN meFetches + 1 ELSE meFetches
               /\ guardDeps' = <<>>
               /\ guardView' = NoView
               /\ authDirty' = TRUE
               /\ authFeed' = IF navigation = ForYouPath
                              THEN FeedOnMount(authFeed) ELSE authFeed
               /\ feedRequestLog' =
                     IF navigation = ForYouPath /\ FeedFetchesOnMount(authFeed)
                     THEN Append(feedRequestLog,
                                 [page |-> 1, rejected |-> rejected])
                     ELSE feedRequestLog
               /\ UNCHANGED redirectLog
    /\ UNCHANGED << visits, hasSession, sessionValid, rejected, nonAuthVars >>

\* one render of the page and the auth effect it commits: useAuthGuard in
\* ForYouClient, the redirect of signed-in users in LoginPage
GuardRender ==
    /\ authDirty
    /\ pathname # NoPage
    /\ LET deps == IF pathname = ForYouPath THEN GuardDeps(meQuery)
                   ELSE IF pathname = LoginPath THEN LoginDeps(meQuery)
                   ELSE <<>>
           runs == deps # guardDeps
           target ==
               IF pathname = ForYouPath /\ runs /\ GuardIsRedirecting(meQuery)
               THEN LoginPath
               ELSE IF pathname = LoginPath /\ runs
                       /\ meQuery.status = "success"
               THEN DashboardPath
               ELSE <<>>
       IN /\ guardDeps' = deps
          /\ IF target # <<>>
             THEN /\ Len(redirectLog) < MaxRedirects
                  /\ navigation' = target
                  /\ redirectLog' =
                        Append(redirectLog,
                               Redirect(IF pathname = ForYouPath THEN "guard"
                                        ELSE "login", pathname, target))
             ELSE UNCHANGED << navigation, redirectLog >>
    /\ guardView' = AuthSnapshot(pathname, meQuery, authFeed)
    /\ authDirty' = FALSE
    /\ UNCHANGED << pathname, visits, hasSession, sessionValid, rejected,
                    meQuery, meFetches, authFeed, feedRequestLog, nonAuthVars >>

\* the answers /auth/me may give
MeAnswers == IF sessionValid THEN { "ok", "500" } ELSE { "401", "500" }

\* the running /auth/me request is answered
DeliverMe(code) ==
    /\ meQuery.fetching
    /\ code \in MeAnswers
    /\ meQuery' =
          IF code = "ok"
          THEN [status |-> "success", fetching |-> FALSE, error |-> NoError,
                hasData |-> TRUE]
          ELSE [status |-> "error", fetching |-> FALSE,
                error |-> [code |-> code, id |-> meFetches],
                hasData |-> meQuery.hasData]
    /\ rejected' = (rejected \/ code = "401")
    /\ authDirty' = TRUE
    /\ UNCHANGED << pathname, navigation, visits, hasSession, sessionValid,
                    meFetches, guardDeps, guardView, redirectLog, authFeed,
                    feedRequestLog, nonAuthVars >>

\* a resolved check is fetched again (its data is stale after a minute and
\* the window regains focus)
MeRefetch ==
    /\ pathname # NoPage
    /\ ~meQuery.fetching
    /\ meQuery.status # "pending"
    /\ meFetches < MaxMeFetches
    /\ meQuery' = FetchState(meQuery)
    /\ meFetches' = meFetches + 1
    /\ authDirty' = TRUE
    /\ UNCHANGED << pathname, navigation, visits, hasSession, sessionValid,
                    rejected, guardDeps, guardView, redirectLog, authFeed,
                    feedRequestLog, nonAuthVars >>

\* the session expires or is revoked; the cookie stays in the browser
SessionExpires ==
    /\ sessionValid
    /\ sessionValid' = FALSE
    /\ UNCHANGED << pathname, navigation, visits, hasSession, rejected,
                    meQuery, meFetches, guardDeps, guardView, authDirty,
                    redirectLog, authFeed, feedRequestLog, nonAuthVars >>

\* the cookie reaches its expiry and the browser drops it
CookieExpires ==
    /\ hasSession
    /\ hasSession' = FALSE
    /\ sessionValid' = FALSE
    /\ UNCHANGED << pathname, navigation, visits, rejected, meQuery,
                    meFetches, guardDeps, guardView, authDirty, redirectLog,
                    authFeed, feedRequestLog, nonAuthVars >>

\* the user signs in on the login page: the provider's round trip loads the
\* application anew and the callback page goes to /dashboard
Login ==
    /\ pathname = LoginPath
    /\ navigation = NoNavigation
    /\ ~sessionValid
    /\ hasSession' = TRUE
    /\ sessionValid' = TRUE
    /\ rejected' = FALSE
    /\ meQuery' = MeIdle
    /\ authFeed' = FeedIdle
    /\ pathname' = NoPage
    /\ navigation' = DashboardPath
    /\ guardDeps' = <<>>
    /\ guardView' = NoView
    /\ authDirty' = FALSE
    /\ UNCHANGED << visits, meFetches, redirectLog, feedRequestLog,
                    nonAuthVars >>

\* the observer of the sentinel calls back with the closure of the last
\* render: fetchNextPage()
AuthIntersection ==
    /\ pathname = ForYouPath
    /\ guardView.sentinel
    /\ guardView.hasNextPage /\ ~guardView.isFetchingNextPage
    /\ Len(feedRequestLog) < MaxFeedRequests
    /\ authFeed' = [authFeed EXCEPT !.fetching = "next"]
    /\ feedRequestLog' = Append(feedRequestLog,
                                [page |-> authFeed.pages + 1,
                                 rejected |-> rejected])
    /\ authDirty' = TRUE
    /\ UNCHANGED << pathname, navigation, visits, hasSession, sessionValid,
                    rejected, meQuery, meFetches, guardDeps, guardView,
                    redirectLog, nonAuthVars >>

\* the running feed request is answered: a page for a valid session, an
\* error otherwise
DeliverFeed ==
    /\ authFeed.fetching # "idle"
    /\ authFeed' =
          IF sessionValid
          THEN [pages |-> IF authFeed.pages < MaxAuthFeedPage
                          THEN authFeed.pages + 1 ELSE authFeed.pages,
                fetching |-> "idle", failed |-> FALSE]
          ELSE [authFeed EXCEPT !.fetching = "idle", !.failed = TRUE]
    /\ authDirty' = TRUE
    /\ UNCHANGED << pathname, navigation, visits, hasSession, sessionValid,
                    rejected, meQuery, meFetches, guardDeps, guardView,
                    redirectLog, feedRequestLog, nonAuthVars >>

\* --------------------------------------- the observers of useInfiniteScroll
FetchFunctions == { "feed", "search" }

HookPropsSet ==
    [hasNextPage : BOOLEAN, isFetchingNextPage : BOOLEAN,
     fetchNextPage : FetchFunctions]

NoProps ==
    [hasNextPage |-> FALSE, isFetchingNextPage |-> FALSE,
     fetchNextPage |-> "feed"]

\* [hasNextPage, isFetchingNextPage, fetchNextPage]
HookDeps(props) ==
    << props.hasNextPage, props.isFetchingNextPage, props.fetchNextPage >>

\* mutant: the effect returns no cleanup
DisconnectSkipped(obs, i) == obs

\* return () => observer.disconnect(), for the observer of the last run
Disconnect(obs, i) ==
    IF i = 0 THEN obs ELSE [obs EXCEPT ![i].connected = FALSE]

\* new IntersectionObserver(callback) and observer.observe(el): the callback
\* closes over the props of this render
NewObserver(props, el) ==
    [connected |-> TRUE, target |-> el,
     hasNextPage |-> props.hasNextPage,
     isFetchingNextPage |-> props.isFetchingNextPage,
     fetchNextPage |-> props.fetchNextPage]

\* the effect runs: the cleanup of the last run, then if (!el) return, else a
\* new observer
ObserversAfterEffect(obs, cleanup, props, el) ==
    IF el = 0 THEN Disconnect(obs, cleanup)
    ELSE Append(Disconnect(obs, cleanup), NewObserver(props, el))

CleanupAfterEffect(obs, el) == IF el = 0 THEN 0 ELSE Len(obs) + 1

\* the element the ref holds after a commit that renders the sentinel or not
ElementAfterCommit(rendered) ==
    IF ~rendered THEN 0
    ELSE IF sentinelEl # 0 THEN sentinelEl
    ELSE elements + 1

HookInit ==
    /\ hookMounted = FALSE
    /\ hookProps = NoProps
    /\ sentinelEl = 0
    /\ elements = 0
    /\ hookDeps = <<>>
    /\ observers = <<>>
    /\ hookCleanup = 0
    /\ hookCalls = <<>>

\* ------------------------------------------------ the mock bookmark store
\* mocks/data/bookmarks.ts. A bookmark is an object; initialBookmarks is an
\* array of four objects and mockBookmarks an array that refers to objects.
\* Bookmark bm_00i is i, note note_00j is j.

\* the objects of initialBookmarks as the module text gives them
InitialBookmarks ==
    (1 :> [issue_node_id |-> "n0", is_resolved |-> FALSE, notes_count |-> 2])
    @@ (2 :> [issue_node_id |-> "n2", is_resolved |-> FALSE, notes_count |-> 1])
    @@ (3 :> [issue_node_id |-> "n5", is_resolved |-> TRUE, notes_count |-> 0])
    @@ (4 :> [issue_node_id |-> "n7", is_resolved |-> FALSE, notes_count |-> 3])

\* the array initialBookmarks: references to the four objects
InitialBookmarkRefs == << 1, 2, 3, 4 >>

\* initialNotes
InitialNotes ==
    (1 :> << 1, 2 >>) @@ (2 :> << 3 >>) @@ (4 :> << 4, 5, 6 >>)

FirstBookmarkId == 5
FirstNoteId == 7

\* issue_node_id values a create request carries: a bookmarked issue and a new one
StoreNodes == { "n0", "n1" }

\* bookmark ids a request names
StoreIds == 1 .. MaxStoreBookmarkId

\* note ids a request names
StoreNoteIds == 1 .. MaxStoreNoteId

\* the updates of a PATCH body: <<>> without is_resolved, else its value
ResolvedUpdates == { <<>>, << TRUE >>, << FALSE >> }

StoreInit ==
    /\ bookmarkObjects = InitialBookmarks
    /\ storeBookmarks = InitialBookmarkRefs
    /\ mockNotes = InitialNotes
    /\ storeNextBookmarkId = FirstBookmarkId
    /\ nextNoteId = FirstNoteId
    /\ storeCalls = 0

\* mockBookmarks.find((b) => b.id === id) finds something
InStore(id) == \E i \in DOMAIN storeBookmarks : storeBookmarks[i] = id

\* getBookmarkByIssueNodeId finds something
NodeInStore(nodeId) ==
    \E i \in DOMAIN storeBookmarks :
        bookmarkObjects[storeBookmarks[i]].issue_node_id = nodeId

\* getNotes: mockNotes[bookmarkId] || []
getNotes(bookmarkId) ==
    IF bookmarkId \in DOMAIN mockNotes THEN mockNotes[bookmarkId] ELSE <<>>

\* a sequence without its elements equal to x
RECURSIVE Without(_, _)
Without(seq, x) ==
    IF seq = <<>> THEN <<>>
    ELSE IF Head(seq) = x THEN Without(Tail(seq), x)
    ELSE << Head(seq) >> \o Without(Tail(seq), x)

\* a function without the key k
DropKey(f, k) == [x \in DOMAIN f \ {k} |-> f[x]]

\* one call of a function of the store is counted
StoreCall ==
    /\ storeCalls < MaxStoreCalls
    /\ storeCalls' = storeCalls + 1
    /\ UNCHANGED << forYouVars, browseVars, bookmarkVars, authVars, hookVars >>

createBookmark(issue_node_id) ==
    /\ StoreCall
    /\ IF NodeInStore(issue_node_id)
       THEN UNCHANGED << bookmarkObjects, storeBookmarks, mockNotes,
                         storeNextBookmarkId >>
       ELSE /\ storeNextBookmarkId <= MaxStoreBookmarkId
            /\ bookmarkObjects' =
                  (storeNextBookmarkId :>
                      [issue_node_id |-> issue_node_id,
                       is_resolved |-> FALSE, notes_count |-> 0])
                  @@ bookmarkObjects
            /\ storeBookmarks' = << storeNextBookmarkId >> \o storeBookmarks
            /\ mockNotes' = (storeNextBookmarkId :> <<>>) @@ mockNotes
            /\ storeNextBookmarkId' = storeNextBookmarkId + 1
    /\ UNCHANGED nextNoteId

\* the object of a bookmark that was created and deleted is referred to by
\* nothing, so it leaves bookmarkObjects; the objects of initialBookmarks stay
deleteBookmark(id) ==
    /\ StoreCall
    /\ IF ~InStore(id)
       THEN UNCHANGED << bookmarkObjects, storeBookmarks, mockNotes >>
       ELSE /\ storeBookmarks' = Without(storeBookmarks, id)
            /\ mockNotes' = DropKey(mockNotes, id)
            /\ bookmarkObjects' =
                  IF id \in DOMAIN InitialBookmarks THEN bookmarkObjects
                  ELSE DropKey(bookmarkObjects, id)
    /\ UNCHANGED << storeNextBookmarkId, nextNoteId >>

updateBookmark(id, updates) ==
    /\ StoreCall
    /\ bookmarkObjects' =
          IF InStore(id) /\ updates # <<>>
          THEN [bookmarkObjects EXCEPT ![id].is_resolved = updates[1]]
          ELSE bookmarkObjects
    /\ UNCHANGED << storeBookmarks, mockNotes, storeNextBookmarkId, nextNoteId >>

addNote(bookmarkId) ==
    /\ StoreCall
    /\ nextNoteId <= MaxStoreNoteId
    /\ nextNoteId' = nextNoteId + 1
    /\ mockNotes' =
          (bookmarkId :> (getNotes(bookmarkId) \o << nextNoteId >>)) @@ mockNotes
    /\ bookmarkObjects' =
          IF InStore(bookmarkId)
          THEN [bookmarkObjects EXCEPT ![bookmarkId].notes_count = @ + 1]
          ELSE bookmarkObjects
    /\ UNCHANGED << storeBookmarks, storeNextBookmarkId >>

\* the bookmark ids whose notes hold the note
NoteOwners(noteId) ==
    { b \in DOMAIN mockNotes :
         \E i \in DOMAIN mockNotes[b] : mockNotes[b][i] = noteId }

deleteNote(noteId) ==
    /\ StoreCall
    /\ IF NoteOwners(noteId) = {}
       THEN UNCHANGED << bookmarkObjects, mockNotes >>
       ELSE \E bookmarkId \in NoteOwners(noteId) :
               /\ mockNotes' =
                     [mockNotes EXCEPT
                         ![bookmarkId] = Without(mockNotes[bookmarkId], noteId)]
               /\ bookmarkObjects' =
                     IF /\ InStore(bookmarkId)
                        /\ bookmarkObjects[bookmarkId].notes_count > 0
                     THEN [bookmarkObjects EXCEPT
                              ![bookmarkId].notes_count = @ - 1]
                     ELSE bookmarkObjects
    /\ UNCHANGED << storeBookmarks, storeNextBookmarkId, nextNoteId >>

\* [...initialBookmarks] copies the array, not the objects: the new array
\* refers to the objects of initialBookmarks as they are now. initialNotes is
\* copied deeply, here and at module load, so it is never written.
resetBookmarks ==
    /\ StoreCall
    /\ storeBookmarks' = InitialBookmarkRefs
    /\ bookmarkObjects' =
          [id \in DOMAIN InitialBookmarks |-> bookmarkObjects[id]]
    /\ mockNotes' = InitialNotes
    /\ storeNextBookmarkId' = FirstBookmarkId
    /\ nextNoteId' = FirstNoteId

AppInit == AuthInit /\ HookInit /\ StoreInit

\* the state an action of the hook leaves alone
nonHookVars == << forYouVars, browseVars, bookmarkVars, authVars, storeVars >>

\* a render of the component: the ref is set, then the effect runs if a
\* dependency differs from the last run (always on mount)
HookCommit(props, rendered) ==
    LET el == ElementAfterCommit(rendered)
        runs == HookDeps(props) # hookDeps
    IN /\ Len(observers) < MaxObservers
       /\ el <= MaxElements
       /\ hookProps' = props
       /\ sentinelEl' = el
       /\ elements' = IF el > elements THEN el ELSE elements
       /\ hookDeps' = HookDeps(props)
       /\ observers' = IF runs
                       THEN ObserversAfterEffect(observers, hookCleanup,
                                                 props, el)
                       ELSE observers
       /\ hookCleanup' = IF runs THEN CleanupAfterEffect(observers, el)
                         ELSE hookCleanup

HookMount(props, rendered) ==
    /\ ~hookMounted
    /\ hookMounted' = TRUE
    /\ HookCommit(props, rendered)
    /\ UNCHANGED << hookCalls, nonHookVars >>

HookRender(props, rendered) ==
    /\ hookMounted
    /\ << props, rendered >> # << hookProps, sentinelEl # 0 >>
    /\ HookCommit(props, rendered)
    /\ UNCHANGED << hookMounted, hookCalls, nonHookVars >>

\* the component is torn down: the cleanup of the last run
HookUnmount ==
    /\ hookMounted
    /\ hookMounted' = FALSE
    /\ observers' = Disconnect(observers, hookCleanup)
    /\ hookCleanup' = 0
    /\ hookDeps' = <<>>
    /\ sentinelEl' = 0
    /\ hookProps' = NoProps
    /\ UNCHANGED << elements, hookCalls, nonHookVars >>

Init ==
    /\ q = <<>>
    /\ queries = [id \in QueryIds |-> EmptyQuery]
    /\ netCalls = [id \in QueryIds |-> [p \in 1..(MaxPages + 1) |-> 0]]
    /\ mounted = TRUE
    /\ mounts = 1
    /\ dirty = TRUE
    /\ view = EmptyView
    /\ scrollDeps = <<>>
    /\ observer = Detached
    /\ visible = TRUE
    /\ loggedRecommendationBatchIds = {}
    /\ mutLog = <<>>
    /\ observedMut = 0
    /\ failures = 0
    /\ clicks = 0
    /\ selectedIssueId = NULL
    /\ searchLog = <<>>
    /\ loaderCalls = 0
    /\ calledSinceEdge = <<>>
    /\ lateResponse = NoResponse
    /\ BrowseInit
    /\ BookmarkInit
    /\ AppInit

\* One render of ForYouClient and the effects it commits: the query hooks
\* start the first page of an enabled query without data, the impression
\* effect runs (logRecommendationEvents is a new object on every render, so
\* its dependency array always differs), the scroll effect re-subscribes.
Render ==
    /\ mounted
    /\ LET qs1 == IF IsSearching(q)
                  THEN StartInitial(StartInitial(queries, FeedId), SearchId(q))
                  ELSE StartInitial(queries, FeedId)
           nc1 == IF IsSearching(q)
                  THEN CountInitial(StartInitial(queries, FeedId),
                                    CountInitial(queries, netCalls, FeedId),
                                    SearchId(q))
                  ELSE CountInitial(queries, netCalls, FeedId)
           v == Snapshot(q, qs1)
           st == ImpressionEffect(q, v.feedPages,
                    [logged |-> loggedRecommendationBatchIds,
                     log |-> mutLog, observed |-> observedMut])
       IN /\ Len(st.log) <= MaxMut
          /\ queries' = qs1
          /\ netCalls' = nc1
          /\ view' = v
          /\ loggedRecommendationBatchIds' = st.logged
          /\ mutLog' = st.log
          /\ observedMut' = st.observed
          /\ dirty' = (st.log # mutLog)
          /\ observer' = ScrollEffect(v, scrollDeps, observer)
          /\ scrollDeps' = ScrollDeps(v)
          /\ calledSinceEdge' =
                IF SentinelRendered(v) THEN calledSinceEdge ELSE <<>>
    /\ UNCHANGED << q, mounted, mounts, visible, failures, clicks,
                    selectedIssueId, searchLog, loaderCalls,
                    lateResponse, otherViews >>

\* ------------------------------------------------------ engagement context
\* map.set(key, value)
MapSet(map, key, value) == (key :> value) @@ map

SearchCtx(page, idx) ==
    [searchId |-> page.search_id,
     position |-> (page.page - 1) * PageSize + idx]

RecommendationCtx(page, idx) ==
    [recommendationBatchId |-> page.recommendation_batch_id,
     position |-> idx]

\* for (const [idx, result] of page.results.entries()) map.set(...)
RECURSIVE SearchResultLoop(_, _, _)
SearchResultLoop(map, page, idx) ==
    IF idx > Len(page.results) THEN map
    ELSE SearchResultLoop(MapSet(map, page.results[idx], SearchCtx(page, idx)),
                          page, idx + 1)

RECURSIVE RecommendationResultLoop(_, _, _)
RecommendationResultLoop(map, page, idx) ==
    IF idx > Len(page.results) THEN map
    ELSE RecommendationResultLoop(
            MapSet(map, page.results[idx], RecommendationCtx(page, idx)),
            page, idx + 1)

RECURSIVE SearchContextLoop(_, _, _)
SearchContextLoop(pages, i, map) ==
    IF i > Len(pages) THEN map
    ELSE SearchContextLoop(pages, i + 1, SearchResultLoop(map, pages[i], 1))

\* searchContextByNodeId
SearchContextByNodeId(text, searchPages) ==
    IF ~IsSearching(text) THEN <<>>
    ELSE SearchContextLoop(searchPages, 1, <<>>)

RECURSIVE RecommendationContextLoop(_, _, _)
RecommendationContextLoop(pages, i, map) ==
    IF i > Len(pages) THEN map
    ELSE IF pages[i].recommendation_batch_id = NULL
    THEN RecommendationContextLoop(pages, i + 1, map)
    ELSE RecommendationContextLoop(pages, i + 1,
            RecommendationResultLoop(map, pages[i], 1))

\* recommendationContextByNodeId
RecommendationContextByNodeId(feedPages) ==
    RecommendationContextLoop(feedPages, 1, <<>>)

\* ------------------------------------------------------------- the loader
\* fetchNextPage() of an infinite query, called without options: without
\* data it joins the running first fetch; without a next page parameter it
\* resolves with the data it has; otherwise it requests page N+1, and a
\* running fetch of that page is cancelled (cancelRefetch defaults to true)
\* and requested again
FetchNextPage(qs, id) ==
    IF qs[id].pages = <<>> \/ ~HasNextPage(qs[id])
    THEN qs
    ELSE [qs EXCEPT ![id].fetching = "next"]

RequestsOfFetchNextPage(qs, calls, id) ==
    IF qs[id].pages = <<>> \/ ~HasNextPage(qs[id])
    THEN calls
    ELSE [calls EXCEPT ![id][Len(qs[id].pages) + 1] = @ + 1]

\* the query the loader's fetchNextPage belongs to
LoaderQueryId == IF observer.source = "search" THEN SearchId(view.q) ELSE FeedId

\* mutant: the callback checks neither flag
ShouldFetchUnguarded(obs, isIntersecting) == isIntersecting

\* entry.isIntersecting && hasNextPage && !isFetchingNextPage, on the values
\* the callback closed over
ShouldFetch(obs, isIntersecting) ==
    isIntersecting /\ obs.hasNextPage /\ ~obs.isFetchingNextPage

\* the IntersectionObserver callback: ([entry]) => { if (...) fetchNextPage() }
\* The observer notifies when the sentinel's intersection state differs from
\* the one it last reported; a new observer has reported none.
IntersectionCallback ==
    /\ mounted
    /\ observer.attached
    /\ LET now == IF visible THEN "visible" ELSE "hidden"
           fire == ShouldFetch(observer, visible)
           nc == RequestsOfFetchNextPage(queries, netCalls, LoaderQueryId)
       IN /\ observer.last # now
          /\ observer' = [observer EXCEPT !.last = now]
          /\ IF fire
             THEN /\ \A p \in 1..(MaxPage + 1) : nc[LoaderQueryId][p] <= MaxCalls
                  /\ queries' = FetchNextPage(queries, LoaderQueryId)
                  /\ netCalls' = nc
                  /\ dirty' = (dirty \/ nc # netCalls)
                  /\ loaderCalls' = loaderCalls + 1
                  /\ calledSinceEdge' = LoaderQueryId
             ELSE UNCHANGED << queries, netCalls, dirty, loaderCalls,
                               calledSinceEdge,
                    lateResponse, otherViews >>
    /\ UNCHANGED << q, mounted, mounts, view, scrollDeps, visible,
                    loggedRecommendationBatchIds, mutLog, observedMut,
                    failures, clicks, selectedIssueId, searchLog,
                    lateResponse, otherViews >>

\* an observer that is connected notifies; its target intersects only while
\* it is the element in the document
ObserverCallback(i, isIntersecting) ==
    /\ i \in DOMAIN observers
    /\ observers[i].connected
    /\ isIntersecting => observers[i].target = sentinelEl
    /\ ShouldFetch(observers[i], isIntersecting)
    /\ Len(hookCalls) < MaxHookCalls
    /\ hookCalls' = Append(hookCalls,
                           [observer |-> i, current |-> hookCleanup,
                            mounted |-> hookMounted,
                            fetchNextPage |-> observers[i].fetchNextPage,
                            rendered |-> hookProps.fetchNextPage])
    /\ UNCHANGED << hookMounted, hookProps, sentinelEl, elements, hookDeps,
                    observers, hookCleanup, nonHookVars >>

\* the user scrolls: the sentinel enters or leaves the root margin
Scroll ==
    /\ visible' = ~visible
    /\ calledSinceEdge' = <<>>
    /\ UNCHANGED << q, queries, netCalls, mounted, mounts, dirty, view,
                    scrollDeps, observer, loggedRecommendationBatchIds,
                    mutLog, observedMut, failures, clicks, selectedIssueId,
                    searchLog, loaderCalls,
                    lateResponse, otherViews >>

\* ------------------------------------------------------------ the network
\* what the server may answer to a request for a page of a query
\* (personalised feed pages carry a batch id)
ResponsePages(id, page) ==
    IF id = FeedId
    THEN { Page(r, page, more, b, NULL) :
             r \in FeedResults, more \in { m \in BOOLEAN : m => page < MaxPage },
             b \in { NULL, BatchNames[page] } }
    ELSE { Page(<<"s1">>, page, FALSE, NULL, SearchIdNames[page]) }

\* the answers of a server whose feed is not personalised
ItemPages(id, page) ==
    IF id = FeedId
    THEN { Page(r, page, more, NULL, NULL) :
             r \in PlainFeedResults,
             more \in { m \in BOOLEAN : m => page < MaxPage } }
    ELSE { Page(r, page, more, NULL, SearchIdNames[page]) :
             r \in SearchResults,
             more \in { m \in BOOLEAN : m => page < MaxPage } }

\* the item a key's server holds
KeyNode(id) ==
    IF id = FeedId THEN "f1"
    ELSE IF id = SearchId(<<"x">>) THEN "s1" ELSE "s2"

\* the same server, every page holding one item
PlainPages(id, page) ==
    IF id = FeedId
    THEN { Page(<<"f1">>, page, more, NULL, NULL) :
             more \in { m \in BOOLEAN : m => page < MaxLoaderPage } }
    ELSE { Page(<<"s1">>, page, more, NULL, SearchIdNames[page]) :
             more \in { m \in BOOLEAN : m => page < MaxLoaderPage } }

\* the number of the page the running request of a query asks for
RequestedPage(id) == Len(queries[id].pages) + 1

\* bookkeeping of a response that arrives for a query other than the
\* active one
NoteLateResponse(id) ==
    lateResponse' = IF mounted /\ id # ActiveId(q)
                    THEN [id |-> id, page |-> RequestedPage(id)]
                    ELSE lateResponse

\* the response of the running page request of a query arrives
DeliverPage(id, responses) ==
    /\ queries[id].fetching # "idle"
    /\ ~mounted \/ ~dirty
    /\ \E page \in responses :
          queries' = [queries EXCEPT ![id].pages = Append(@, page),
                                     ![id].fetching = "idle"]
    /\ dirty' = mounted
    /\ UNCHANGED << q, netCalls, mounted, mounts, view, scrollDeps, observer,
                    visible, loggedRecommendationBatchIds, mutLog, observedMut,
                    failures, clicks, selectedIssueId, searchLog, loaderCalls,
                    calledSinceEdge,
                    otherViews >>

\* the recommendation-events request of mutLog[i] settles; the options given
\* to mutate (onError) run only if the hook's observer still follows it
SettleMutation(i, ok) ==
    /\ i \in 1..Len(mutLog)
    /\ mutLog[i].status = "pending"
    /\ ~mounted \/ ~dirty
    /\ ok \/ failures < MaxFail
    /\ failures' = IF ok THEN failures ELSE failures + 1
    /\ mutLog' = [mutLog EXCEPT ![i].status = IF ok THEN "success" ELSE "error"]
    /\ IF mounted /\ observedMut = i
       THEN /\ loggedRecommendationBatchIds' =
                 IF ~ok /\ mutLog[i].onError
                 THEN loggedRecommendationBatchIds \ { mutLog[i].batch }
                 ELSE loggedRecommendationBatchIds
            /\ dirty' = TRUE
       ELSE UNCHANGED << loggedRecommendationBatchIds, dirty >>
    /\ UNCHANGED << q, queries, netCalls, mounted, mounts, view, scrollDeps,
                    observer, visible, observedMut, clicks, selectedIssueId,
                    searchLog, loaderCalls, calledSinceEdge,
                    lateResponse, otherViews >>

\* ------------------------------------------------------------- user input
\* the q parameter of the URL changes
ChangeQuery(text) ==
    /\ mounted
    /\ ~dirty
    /\ text # q
    /\ q' = text
    /\ dirty' = TRUE
    /\ UNCHANGED << queries, netCalls, mounted, mounts, view, scrollDeps,
                    observer, visible, loggedRecommendationBatchIds, mutLog,
                    observedMut, failures, clicks, selectedIssueId, searchLog,
                    loaderCalls, calledSinceEdge,
                    lateResponse, otherViews >>

\* the rows are rendered
RowsRendered(v) ==
    ~v.isLoading /\ Items(v.q, v.searchPages, v.feedPages) # <<>>

\* mutant: a recommendation context of the node id wins whatever is shown
ClickRouteContextFirst(text, nodeId, searchCtx, recCtx) ==
    IF nodeId \in DOMAIN recCtx THEN "recommendation"
    ELSE IF IsSearching(text) /\ nodeId \in DOMAIN searchCtx THEN "search"
    ELSE "none"

\* the branch the onClick handler takes for a row
ClickRoute(text, nodeId, searchCtx, recCtx) ==
    IF IsSearching(text)
    THEN IF nodeId \in DOMAIN searchCtx THEN "search" ELSE "none"
    ELSE IF nodeId \in DOMAIN recCtx THEN "recommendation" ELSE "none"

\* onClick of the k-th rendered row
RowOnClick(k) ==
    /\ mounted
    /\ ~dirty
    /\ clicks < MaxClicks
    /\ RowsRendered(view)
    /\ k \in 1..Len(ViewItems)
    /\ LET nodeId == ViewItems[k]
           searchCtx == SearchContextByNodeId(view.q, view.searchPages)
           recCtx == RecommendationContextByNodeId(view.feedPages)
           route == ClickRoute(view.q, nodeId, searchCtx, recCtx)
           st == [logged |-> loggedRecommendationBatchIds,
                  log |-> mutLog, observed |-> observedMut]
       IN /\ selectedIssueId' = nodeId
          /\ IF route = "search"
             THEN /\ searchLog' =
                       Append(searchLog,
                              [search_id |-> searchCtx[nodeId].searchId,
                               selected_node_id |-> nodeId,
                               position |-> searchCtx[nodeId].position])
                  /\ UNCHANGED << mutLog, observedMut >>
             ELSE IF route = "recommendation"
             THEN LET ev == << [event_type |-> "click",
                                issue_node_id |-> nodeId,
                                position |-> recCtx[nodeId].position] >>
                      st1 == Mutate(st, "click",
                                    recCtx[nodeId].recommendationBatchId,
                                    ev, FALSE)
                  IN /\ Len(st1.log) <= MaxMut
                     /\ mutLog' = st1.log
                     /\ observedMut' = st1.observed
                     /\ UNCHANGED searchLog
             ELSE UNCHANGED << searchLog, mutLog, observedMut >>
    /\ clicks' = clicks + 1
    /\ dirty' = TRUE
    /\ UNCHANGED << q, queries, netCalls, mounted, mounts, view, scrollDeps,
                    observer, visible, loggedRecommendationBatchIds, failures,
                    loaderCalls, calledSinceEdge, lateResponse >>

\* the user activates the k-th row
Click(k) ==
    /\ RowOnClick(k)
    /\ UNCHANGED otherViews

\* the save button of IssueListItem is a child of the row's div and its
\* onClick is onToggleSaved, which is called without the event
SaveButtonStopsPropagation == FALSE

\* the user clicks the save button of the k-th row: the button's handler
\* runs, then the click bubbles to the row
SaveButtonClick(k) ==
    /\ mounted
    /\ RowsRendered(view)
    /\ k \in 1..Len(ViewItems)
    /\ ToggleBookmark(ViewItems[k])
    /\ IF SaveButtonStopsPropagation
       THEN UNCHANGED forYouVars
       ELSE RowOnClick(k)
    /\ UNCHANGED << browseVars, appVars >>


\* the user leaves the For You page: the view is torn down (effect cleanups
\* run, refs and hook observers go); the query cache of the app stays
Unmount ==
    /\ mounted
    /\ ~dirty
    /\ mounts < MaxMounts
    /\ mounted' = FALSE
    /\ view' = EmptyView
    /\ scrollDeps' = <<>>
    /\ observer' = Detached
    /\ loggedRecommendationBatchIds' = {}
    /\ observedMut' = 0
    /\ selectedIssueId' = NULL
    /\ calledSinceEdge' = <<>>
    /\ UNCHANGED << q, queries, netCalls, mounts, dirty, visible, mutLog,
                    failures, clicks, searchLog, loaderCalls,
                    lateResponse, otherViews >>

\* the user comes back: a new ForYouClient instance renders
Mount ==
    /\ ~mounted
    /\ mounts < MaxMounts
    /\ mounted' = TRUE
    /\ mounts' = mounts + 1
    /\ dirty' = TRUE
    /\ UNCHANGED << q, queries, netCalls, view, scrollDeps, observer, visible,
                    loggedRecommendationBatchIds, mutLog, observedMut,
                    failures, clicks, selectedIssueId, searchLog, loaderCalls,
                    calledSinceEdge,
                    lateResponse, otherViews >>

\* The For You view with a personalised feed; the sentinel stays in view.
Next ==
    \/ Render
    \/ IntersectionCallback
    \/ \E id \in QueryIds :
          /\ DeliverPage(id, ResponsePages(id, RequestedPage(id)))
          /\ UNCHANGED lateResponse
    \/ \E i \in 1..MaxMut, ok \in BOOLEAN : SettleMutation(i, ok)
    \/ \E text \in { <<>>, <<"x">> } : ChangeQuery(text)
    \/ \E k \in 1..(2 * MaxPage) : Click(k)
    \/ Unmount
    \/ Mount

Spec == Init /\ [][Next]_vars

\* The aggregation of both sources, with a feed that is not personalised;
\* the sentinel stays in view.
NextItems ==
    \/ Render
    \/ IntersectionCallback
    \/ \E id \in QueryIds :
          /\ DeliverPage(id, ItemPages(id, RequestedPage(id)))
          /\ UNCHANGED lateResponse
    \/ \E text \in QTexts : ChangeQuery(text)

SpecItems == Init /\ [][NextItems]_vars

\* The loader under scrolling, with a feed that is not personalised.
InitLoader ==
    /\ q \in QTexts
    /\ queries = [id \in QueryIds |-> EmptyQuery]
    /\ netCalls = [id \in QueryIds |-> [p \in 1..(MaxPages + 1) |-> 0]]
    /\ mounted = TRUE
    /\ mounts = 1
    /\ dirty = TRUE
    /\ view = EmptyView
    /\ scrollDeps = <<>>
    /\ observer = Detached
    /\ visible \in BOOLEAN
    /\ loggedRecommendationBatchIds = {}
    /\ mutLog = <<>>
    /\ observedMut = 0
    /\ failures = 0
    /\ clicks = 0
    /\ selectedIssueId = NULL
    /\ searchLog = <<>>
    /\ loaderCalls = 0
    /\ calledSinceEdge = <<>>
    /\ lateResponse = NoResponse
    /\ BrowseInit
    /\ BookmarkInit
    /\ AppInit

NextLoader ==
    \/ Render
    \/ IntersectionCallback
    \/ Scroll
    \/ \E id \in QueryIds :
          /\ DeliverPage(id, PlainPages(id, RequestedPage(id)))
          /\ UNCHANGED lateResponse
    \/ \E text \in QTexts : ChangeQuery(text)

SpecLoader == InitLoader /\ [][NextLoader]_vars

\* BrowseClient under query changes, Load more and responses
NextBrowse ==
    \/ \E text \in KeyTexts : BrowseChangeQuery(text)
    \/ HandleLoadMore
    \/ \E key \in BrowseKeys : BrowseDeliver(key)

SpecBrowse == Init /\ [][NextBrowse]_vars

\* the For You view under changes between three keys, each key's server
\* answering with its own single item
KeyedPages(id, p) ==
    { Page(<<KeyNode(id)>>, p, more, NULL, IF id = FeedId THEN NULL ELSE SearchIdNames[p]) :
        more \in { m \in BOOLEAN : m => p < MaxPage } }

NextKeys ==
    \/ Render
    \/ IntersectionCallback
    \/ \E id \in QueryIds :
          /\ DeliverPage(id, KeyedPages(id, RequestedPage(id)))
          /\ NoteLateResponse(id)
    \/ \E text \in { <<>>, <<"x">>, <<"y">> } : ChangeQuery(text)

SpecKeys == Init /\ [][NextKeys]_vars

\* Row activations with an issue (f1) that the feed and the search both
\* return
ClickPages(id, p) ==
    IF id = FeedId
    THEN { Page(<<"f1">>, p, FALSE, b, NULL) : b \in { NULL, BatchNames[p] } }
    ELSE { Page(<<"f1", "s1">>, p, FALSE, NULL, SearchIdNames[p]) }

NextClicks ==
    \/ Render
    \/ \E id \in QueryIds :
          /\ DeliverPage(id, ClickPages(id, RequestedPage(id)))
          /\ UNCHANGED lateResponse
    \/ \E i \in 1..MaxMut, ok \in BOOLEAN : SettleMutation(i, ok)
    \/ \E text \in { <<>>, <<"x">> } : ChangeQuery(text)
    \/ \E k \in 1..2 : Click(k)

SpecClicks == Init /\ [][NextClicks]_vars

\* bookmark handling of a list view: the rendered items change, rows are
\* toggled, requests are answered
NextBookmarks ==
    \/ \E ids \in IdLists : ShowItems(ids)
    \/ \E ids \in IdLists : DeliverCheck(ids)
    \/ \E n \in BookmarkNodes : HandleToggleBookmark(n)
    \/ \E i \in 1..MaxBookmarkMuts : SettleBookmarkSuccess(i)
    \/ \E i \in 1..MaxBookmarkMuts : SettleBookmarkFailure(i)

SpecBookmarks == Init /\ [][NextBookmarks]_vars

\* bookmark handling of BrowseClient's list
NextBrowseBookmarks ==
    \/ \E ids \in IdLists : ShowItems(ids)
    \/ \E ids \in IdLists : DeliverCheck(ids)
    \/ \E n \in BookmarkNodes : BrowseHandleToggleBookmark(n)
    \/ \E i \in 1..MaxBookmarkMuts : SettleBookmarkSuccess(i)
    \/ \E i \in 1..MaxBookmarkMuts : SettleBookmarkFailure(i)

SpecBrowseBookmarks == Init /\ [][NextBrowseBookmarks]_vars

\* auth gating: the middleware, the guard of the For You page, the login
\* page
NextAuth ==
    \/ \E path \in AuthPaths : Visit(path)
    \/ HandleRequest
    \/ GuardRender
    \/ \E code \in { "ok", "401", "500" } : DeliverMe(code)
    \/ MeRefetch
    \/ SessionExpires
    \/ CookieExpires
    \/ Login
    \/ AuthIntersection
    \/ DeliverFeed

SpecAuth == Init /\ [][NextAuth]_vars

\* useInfiniteScroll under renders with any props, with and without the
\* sentinel, and teardown
NextHook ==
    \/ \E props \in HookPropsSet, rendered \in BOOLEAN : HookMount(props, rendered)
    \/ \E props \in HookPropsSet, rendered \in BOOLEAN : HookRender(props, rendered)
    \/ HookUnmount
    \/ \E i \in 1..MaxObservers, isIntersecting \in BOOLEAN :
          ObserverCallback(i, isIntersecting)

SpecHook == Init /\ [][NextHook]_vars

\* the For You list with its save buttons: rows are activated, bookmarks
\* are toggled from the rows
NextRows ==
    \/ Render
    \/ \E id \in QueryIds :
          /\ DeliverPage(id, ClickPages(id, RequestedPage(id)))
          /\ UNCHANGED lateResponse
    \/ \E text \in { <<>>, <<"x">> } : ChangeQuery(text)
    \/ \E ids \in { <<>>, <<"f1">> } : ShowItems(ids)
    \/ \E ids \in { <<"f1">> } : DeliverCheck(ids)
    \/ \E k \in 1..2 : Click(k)
    \/ \E k \in 1..2 : SaveButtonClick(k)

SpecRows == Init /\ [][NextRows]_vars

\* the mock bookmark store under the requests of the handlers and the reset
NextStore ==
    \/ \E n \in StoreNodes : createBookmark(n)
    \/ \E id \in StoreIds : deleteBookmark(id)
    \/ \E id \in StoreIds, r \in ResolvedUpdates : updateBookmark(id, r)
    \/ \E id \in StoreIds : addNote(id)
    \/ \E n \in StoreNoteIds : deleteNote(n)
    \/ resetBookmarks

SpecStore == Init /\ [][NextStore]_vars

\* ================================================================ claims
\* the impression calls the m-th view instance made for batch b
ImpressionCalls(b, m) ==
    { i \in DOMAIN mutLog :
        /\ mutLog[i].kind = "impression"
        /\ mutLog[i].batch = b
        /\ mutLog[i].mount = m }

FailedImpression(b) ==
    \E i \in DOMAIN mutLog :
        /\ mutLog[i].kind = "impression"
        /\ mutLog[i].batch = b
        /\ mutLog[i].status = "error"

CarriesPage(i, page) ==
    /\ Len(mutLog[i].events) = Len(page.results)
    /\ \A idx \in DOMAIN page.results :
          /\ mutLog[i].events[idx].event_type = "impression"
          /\ mutLog[i].events[idx].issue_node_id = page.results[idx]

C2_FailureRollsBack ==
    mounted =>
        \A i \in DOMAIN mutLog :
            ( /\ mutLog[i].kind = "impression"
              /\ mutLog[i].mount = mounts
              /\ mutLog[i].status = "error"
              /\ \A j \in DOMAIN mutLog :
                    j > i => ~( /\ mutLog[j].kind = "impression"
                                /\ mutLog[j].batch = mutLog[i].batch ) )
            => mutLog[i].batch \notin loggedRecommendationBatchIds

\* C3: when the view has caught up (rendered, nothing of b in flight) and
\* an emission for b by this view has failed, b's impressions have been
\* sent again and exactly one emission for b has succeeded.
C3_RetriedUntilLogged ==
    \A b \in Batches :
        ( /\ mounted
          /\ ~dirty
          /\ ~IsSearching(view.q)
          /\ \E k \in DOMAIN view.feedPages :
                view.feedPages[k].recommendation_batch_id = b
          /\ \E i \in ImpressionCalls(b, mounts) : mutLog[i].status = "error"
          /\ \A i \in ImpressionCalls(b, mounts) : mutLog[i].status # "pending" )
        => Cardinality({ i \in ImpressionCalls(b, mounts) :
                            mutLog[i].status = "success" }) = 1

\* C4: once an impression emission for b has succeeded, no step issues
\* another impression emission for b.
C4_NoEmissionAfterSuccess ==
    [][ \A b \in Batches :
          (\E i \in DOMAIN mutLog :
              /\ mutLog[i].kind = "impression"
              /\ mutLog[i].batch = b
              /\ mutLog[i].status = "success")
          => \A j \in DOMAIN mutLog' :
                j > Len(mutLog) => ~( /\ mutLog'[j].kind = "impression"
                                      /\ mutLog'[j].batch = b ) ]_vars

\* the pages the rendered list was built from
ViewPages == IF IsSearching(view.q) THEN view.searchPages ELSE view.feedPages

RECURSIVE SumOfLengths(_, _)
SumOfLengths(pages, n) ==
    IF n = 0 THEN 0 ELSE Len(pages[n].results) + SumOfLengths(pages, n - 1)

\* C5: the rendered list holds items of one source only: search items while
\* the trimmed query text is non-empty, feed items otherwise.
C5_SingleSource ==
    \A i \in DOMAIN ViewItems :
        IF Len(Trim(view.q)) > 0
        THEN ViewItems[i] \in SearchNodes
        ELSE ViewItems[i] \in FeedNodes

\* the text was cleared after search results were shown: both responses
\* are held, the list shows the feed's
C5_Witness ==
    /\ view.q = <<>>
    /\ ~dirty
    /\ ViewItems # <<>>
    /\ \E t \in SearchKeys : queries[SearchId(t)].pages # <<>>

\* C6: the rendered list is the concatenation of the results of the
\* resolved pages of the active key, in page order and in each page's order;
\* its length is the sum of the pages' result counts.
C6_Concatenation ==
    /\ mounted /\ ~dirty => ViewPages = queries[ActiveId(q)].pages
    /\ Len(ViewItems) = SumOfLengths(ViewPages, Len(ViewPages))
    /\ \A k \in DOMAIN ViewPages :
          \A idx \in DOMAIN ViewPages[k].results :
              ViewItems[SumOfLengths(ViewPages, k - 1) + idx]
                  = ViewPages[k].results[idx]

\* two pages that share an item and are not in sorted order are shown
C6_Witness ==
    /\ Len(ViewPages) = 2
    /\ ViewPages[1].results = <<"f2", "f1">>
    /\ ViewPages[2].results = <<"f1">>
    /\ ViewItems = <<"f2", "f1", "f1">>

C9_EdgeTriggered ==
    [][ loaderCalls' > loaderCalls => calledSinceEdge # LoaderQueryId ]_vars

\* has_more of the last resolved page of a query
LastHasMore(id) ==
    /\ queries[id].pages # <<>>
    /\ queries[id].pages[Len(queries[id].pages)].has_more

\* C10: the loader calls fetchNextPage for a query only while the last
\* resolved page of that query says has_more.
C10_StopsWhenExhausted ==
    [][ loaderCalls' > loaderCalls => LastHasMore(LoaderQueryId) ]_vars

\* the feed is exhausted after its second page, the sentinel's box is still
\* in view, and the loader has made the one call that fetched that page
C10_Witness ==
    /\ mounted
    /\ ~dirty
    /\ visible
    /\ ~IsSearching(view.q)
    /\ Len(queries[FeedId].pages) = 2
    /\ ~LastHasMore(FeedId)
    /\ loaderCalls = 1

\* C11: the rendered list, and the list the current key gives, hold only
\* items the server returned for the key they are shown under: a page that
\* resolved for another key never appears.
C11_NoStalePage ==
    /\ \A i \in DOMAIN ViewItems : ViewItems[i] = KeyNode(ActiveId(view.q))
    /\ LET items == Items(q, SearchPagesOf(queries, q), queries[FeedId].pages)
       IN \A i \in DOMAIN items : items[i] = KeyNode(ActiveId(q))

\* page 2 of key x resolved after the text had changed to y; the view has
\* rendered since and shows y's first page
C11_Witness ==
    /\ lateResponse = [id |-> SearchId(<<"x">>), page |-> 2]
    /\ Len(queries[SearchId(<<"x">>)].pages) = 2
    /\ q = <<"y">>
    /\ view.q = <<"y">>
    /\ ~dirty
    /\ ViewItems = <<"s2">>

\* C12: the search request BrowseClient issues when the query text changes
\* is for page 1 of the new text, whatever page had been reached before.
C12_PageOneAfterKeyChange ==
    [][ q' # q /\ Len(browseRequests') > Len(browseRequests) =>
          browseRequests'[Len(browseRequests')] = [query |-> q', page |-> 1]
      ]_vars

\* the places of the rendered list that hold a node id
Occurrences(nodeId) == { i \in DOMAIN ViewItems : ViewItems[i] = nodeId }

\* C13: while searching, the engagement-context position of every rendered
\* item equals its 1-based index in the rendered (concatenated) list; stated
\* for the items whose node id is rendered once, a map keyed by node id
\* holding one context per id.
C13_SearchPositionIsIndex ==
    IsSearching(view.q) =>
        LET ctx == SearchContextByNodeId(view.q, view.searchPages)
        IN \A i \in DOMAIN ViewItems :
              Occurrences(ViewItems[i]) = { i } =>
                  /\ ViewItems[i] \in DOMAIN ctx
                  /\ ctx[ViewItems[i]].position = i

\* C14: for every rendered recommendation page with a batch id, the
\* engagement context of each of its items holds that page's batch id and
\* the item's 1-based index within the page, and every impression call made
\* for that batch carries, per item, that index as position.
C14_RecommendationPositions ==
    LET ctx == RecommendationContextByNodeId(view.feedPages)
    IN \A k \in DOMAIN view.feedPages :
          LET pg == view.feedPages[k]
          IN pg.recommendation_batch_id # NULL =>
                /\ \A idx \in DOMAIN pg.results :
                      /\ pg.results[idx] \in DOMAIN ctx
                      /\ ctx[pg.results[idx]] =
                            [recommendationBatchId |-> pg.recommendation_batch_id,
                             position |-> idx]
                /\ \A i \in DOMAIN mutLog :
                      ( /\ mutLog[i].kind = "impression"
                        /\ mutLog[i].batch = pg.recommendation_batch_id )
                      => /\ CarriesPage(i, pg)
                         /\ \A idx \in DOMAIN pg.results :
                               mutLog[i].events[idx].position = idx

C16_StreamsNeverMerged ==
    [][ /\ ~(Len(mutLog') > Len(mutLog) /\ Len(searchLog') > Len(searchLog))
        /\ IsSearching(q) => Len(mutLog') = Len(mutLog)
        /\ ~IsSearching(q) => searchLog' = searchLog ]_vars

\* the view has rendered a recommendation page whose batch was never sent,
\* because it arrived while searching, and a search row was activated
C16_Witness ==
    /\ mounted
    /\ IsSearching(view.q)
    /\ Len(searchLog) = 1
    /\ mutLog = <<>>
    /\ \E k \in DOMAIN view.feedPages :
          /\ view.feedPages[k].recommendation_batch_id # NULL
          /\ view.feedPages[k].results # <<>>

\* C17: no bookmark-check request is ever issued for an empty id list, and
\* the check query of the empty list is never fetching.
C17_NoCheckForEmptyList ==
    /\ \A i \in DOMAIN checkCalls : checkCalls[i] # <<>>
    /\ ~bookmarkCheck[<<>>].fetching

\* the list became empty after its first check and a mutation then
\* succeeded (its invalidation found the empty list observed): no request
\* but the first one was made
C17_Witness ==
    /\ issueNodeIds = <<>>
    /\ Len(checkCalls) = 1
    /\ \E i \in DOMAIN bookmarkMuts : bookmarkMuts[i].status = "success"

\* what the view shows as the bookmark id of a node
ShownBookmarkId(nodeId) ==
    BookmarkIdOf(BookmarksMap(bookmarkCheck, issueNodeIds), nodeId)

\* C18: a toggle issues exactly one mutation: a delete keyed by the shown
\* bookmark id when the item has one, otherwise (null or not yet checked) a
\* create whose payload is built from the item (the link falling back to
\* https://github.com/{repoName}, the body to the empty text).
C18_ToggleDeleteOrCreate ==
    [][ Len(bookmarkMuts') > Len(bookmarkMuts) =>
          /\ Len(bookmarkMuts') = Len(bookmarkMuts) + 1
          /\ SubSeq(bookmarkMuts', 1, Len(bookmarkMuts)) = bookmarkMuts
          /\ LET m == bookmarkMuts'[Len(bookmarkMuts')]
                 issue == Issue(m.nodeId)
             IN IF ShownBookmarkId(m.nodeId) # NULL
                THEN /\ m.kind = "delete"
                     /\ m.bookmarkId = ShownBookmarkId(m.nodeId)
                     /\ m.payload = <<>>
                ELSE /\ m.kind = "create"
                     /\ Len(m.payload) = 1
                     /\ m.payload[1].issue_node_id = m.nodeId
                     /\ m.payload[1].title_snapshot = issue.title
                     /\ m.payload[1].github_url =
                           IF issue.githubUrl = <<>>
                           THEN <<"https://github.com/", issue.repoName>>
                           ELSE issue.githubUrl
                     /\ m.payload[1].body_snapshot =
                           IF issue.bodyPreview = <<>> THEN <<"">>
                           ELSE issue.bodyPreview ]_vars

\* the saved item was toggled (a delete keyed by its id) and the item
\* without link, not yet checked, was toggled (a create with the fallback)
C18_Witness ==
    /\ \E i \in DOMAIN bookmarkMuts :
          /\ bookmarkMuts[i].kind = "delete"
          /\ bookmarkMuts[i].bookmarkId = "bm0"
    /\ \E i \in DOMAIN bookmarkMuts :
          /\ bookmarkMuts[i].kind = "create"
          /\ bookmarkMuts[i].nodeId = "f1"
          /\ bookmarkMuts[i].payload[1].github_url =
                <<"https://github.com/", "repo1">>

\* every mutation has settled and the observed check is up to date
BookmarksSettled ==
    /\ CheckEnabled(issueNodeIds)
    /\ bookmarkCheck[issueNodeIds].data # <<>>
    /\ ~bookmarkCheck[issueNodeIds].fetching
    /\ ~bookmarkCheck[issueNodeIds].invalidated
    /\ \A i \in DOMAIN bookmarkMuts : bookmarkMuts[i].status # "pending"

\* bookmarkMuts[i] succeeded, and no mutation of its node succeeded later
LastSuccessForNode(muts, i) ==
    /\ muts[i].status = "success"
    /\ \A j \in DOMAIN muts :
          ( /\ muts[j].nodeId = muts[i].nodeId
            /\ muts[j].status = "success" )
          => muts[j].order <= muts[i].order

\* C19: once every mutation and the refreshed check have resolved, an item
\* whose last successful toggle was a create is shown saved, under the
\* bookmark id the create returned, and one whose last successful toggle
\* was a delete is shown unsaved; and a toggle made then on an item whose
\* last successful toggle was a create issues a delete keyed by the id that
\* create returned.
C19_ToggleRoundTrip ==
    [][ /\ BookmarksSettled' =>
              \A i \in DOMAIN bookmarkMuts' :
                  LET m == bookmarkMuts'[i]
                  IN ( /\ LastSuccessForNode(bookmarkMuts', i)
                       /\ \E k \in DOMAIN issueNodeIds' :
                             issueNodeIds'[k] = m.nodeId )
                     => IF m.kind = "create"
                        THEN BookmarkIdOf(BookmarksMap(bookmarkCheck',
                                                       issueNodeIds'),
                                          m.nodeId) = m.result
                             /\ m.result # NULL
                        ELSE ~IsSaved(BookmarksMap(bookmarkCheck',
                                                   issueNodeIds'), m.nodeId)
        /\ ( BookmarksSettled /\ Len(bookmarkMuts') > Len(bookmarkMuts) ) =>
              LET new == bookmarkMuts'[Len(bookmarkMuts')]
              IN \A i \in DOMAIN bookmarkMuts :
                    ( /\ bookmarkMuts[i].nodeId = new.nodeId
                      /\ LastSuccessForNode(bookmarkMuts, i) )
                    => IF bookmarkMuts[i].kind = "create"
                       THEN /\ new.kind = "delete"
                            /\ new.bookmarkId = bookmarkMuts[i].result
                       ELSE new.kind = "create" ]_vars

\* the whole round trip: f1 was created, shown saved, deleted under the id
\* the create returned, and is shown unsaved again
C19_Witness ==
    /\ BookmarksSettled
    /\ Len(bookmarkMuts) = 2
    /\ bookmarkMuts[1].kind = "create"
    /\ bookmarkMuts[1].nodeId = "f1"
    /\ bookmarkMuts[1].status = "success"
    /\ bookmarkMuts[2].kind = "delete"
    /\ bookmarkMuts[2].bookmarkId = bookmarkMuts[1].result
    /\ bookmarkMuts[2].status = "success"
    /\ ~IsSaved(BookmarksMap(bookmarkCheck, issueNodeIds), "f1")
    /\ mockBookmarks["f1"] = NULL

C21_PayloadUrl ==
    \A i \in DOMAIN bookmarkMuts :
        bookmarkMuts[i].kind = "create" =>
            LET issue == BrowseIssue(bookmarkMuts[i].nodeId)
                url == bookmarkMuts[i].payload[1].github_url
            IN IF issue.githubUrl # <<>>
               THEN url = issue.githubUrl
               ELSE url = <<"https://github.com/", issue.repoName>>

\* the flags useAuthGuard returns for a state of the current-user check
GuardFlags(query) ==
    << GuardIsLoading(query), GuardIsAuthenticated(query),
       GuardIsRedirecting(query) >>

\* C22: the auth gate redirects to /login if and only if the current-user
\* check has resolved with a 401: every redirect of the guard is issued for
\* a check in the error state with status 401 (not loading, not succeeded,
\* not failed otherwise), a rendered guard whose check stands at a 401 has
\* issued the redirect for that answer, and at most one of isLoading,
\* isAuthenticated, isRedirecting is true.
C22_AuthGate ==
    /\ \A i \in DOMAIN redirectLog :
          redirectLog[i].by = "guard" =>
             /\ redirectLog[i].to = LoginPath
             /\ redirectLog[i].me.status = "error"
             /\ redirectLog[i].me.error.code = "401"
             /\ ~GuardIsLoading(redirectLog[i].me)
             /\ ~GuardIsAuthenticated(redirectLog[i].me)
    /\ (/\ pathname = ForYouPath
        /\ ~authDirty
        /\ meQuery.status = "error"
        /\ meQuery.error.code = "401")
          => \E i \in DOMAIN redirectLog :
                /\ redirectLog[i].by = "guard"
                /\ redirectLog[i].me.error = meQuery.error
    /\ \A query \in { meQuery } \cup { redirectLog[i].me : i \in DOMAIN redirectLog } :
          Cardinality({ k \in 1..3 : GuardFlags(query)[k] }) <= 1
    /\ Cardinality({ f \in { "isLoading", "isAuthenticated", "isRedirecting" } :
                       guardView[f] }) <= 1

\* the guard has redirected a user whose check had succeeded before and then
\* was answered 401
C22_Witness ==
    \E i \in DOMAIN redirectLog :
        /\ redirectLog[i].by = "guard"
        /\ redirectLog[i].me.hasData
        /\ redirectLog[i].me.error.code = "401"

\* C23: once the current-user check has returned 401, no feed request
\* (first page or next page) is issued until the user has signed in again.
C23_NoFeedRequestAfter401 ==
    \A i \in DOMAIN feedRequestLog : ~feedRequestLog[i].rejected

\* C24: after the loader is torn down, or re-subscribed because hasNextPage,
\* isFetchingNextPage or fetchNextPage changed, the previous observer is
\* disconnected and never calls fetchNextPage again: every call comes from
\* the observer of the last effect run of a mounted component, with the
\* props of the last render; and at most one observer is connected.
C24_OneLiveObserver ==
    /\ Cardinality({ i \in DOMAIN observers : observers[i].connected }) <= 1
    /\ \A i \in DOMAIN observers :
          observers[i].connected => hookMounted /\ i = hookCleanup
    /\ \A k \in DOMAIN hookCalls :
          /\ hookCalls[k].mounted
          /\ hookCalls[k].observer = hookCalls[k].current
          /\ hookCalls[k].fetchNextPage = hookCalls[k].rendered

\* two observers have been replaced, one of them by a re-subscription and one
\* by teardown, and the observer that followed has called fetchNextPage
C24_Witness ==
    /\ Len(observers) = 3
    /\ ~observers[1].connected /\ ~observers[2].connected
    /\ observers[3].connected
    /\ \E k \in DOMAIN hookCalls : hookCalls[k].observer = 3
    /\ \E k \in DOMAIN hookCalls : hookCalls[k].observer = 1

\* the page that holds the k-th row of the concatenated pages, and the row's
\* 1-based index within that page
RECURSIVE RowPage(_, _, _)
RowPage(pages, i, k) ==
    IF k <= Len(pages[i].results) THEN i
    ELSE RowPage(pages, i + 1, k - Len(pages[i].results))

RECURSIVE RowIndex(_, _, _)
RowIndex(pages, i, k) ==
    IF k <= Len(pages[i].results) THEN k
    ELSE RowIndex(pages, i + 1, k - Len(pages[i].results))

\* C25: the click event emitted on activating a rendered row carries the
\* batch id and position of that row's own occurrence: the page the row was
\* rendered from (one with a batch id) and its index within that page, also
\* when the same node id occurs again in a later page.
C25_ClickOwnOccurrence ==
    [][\A k \in 1..(2 * MaxPage) :
          (Click(k) /\ ~IsSearching(view.q) /\ Len(mutLog') > Len(mutLog)) =>
             LET pg == view.feedPages[RowPage(view.feedPages, 1, k)]
                 idx == RowIndex(view.feedPages, 1, k)
                 call == mutLog'[Len(mutLog')]
             IN pg.recommendation_batch_id # NULL =>
                   /\ call.batch = pg.recommendation_batch_id
                   /\ call.events[1].position = idx]_vars

\* C26: toggling an item's bookmark from its list row emits no engagement
\* event and leaves the selected item unchanged.
C26_ToggleEmitsNothing ==
    [][\A k \in 1..2 :
          SaveButtonClick(k) =>
             /\ selectedIssueId' = selectedIssueId
             /\ mutLog' = mutLog
             /\ searchLog' = searchLog]_vars

\* the node ids of the rendered items
RenderedNodes(ids) == { ids[i] : i \in DOMAIN ids }

\* C27: an item reported as saved keeps being reported as saved while it is
\* rendered, until a delete of its bookmark has succeeded; in particular when
\* the list grows and the check is issued again for the larger id set.
C27_SavedStaysSaved ==
    [][\A n \in RenderedNodes(issueNodeIds) \cap RenderedNodes(issueNodeIds') :
          ( /\ IsSaved(BookmarksMap(bookmarkCheck, issueNodeIds), n)
            /\ ~IsSaved(BookmarksMap(bookmarkCheck', issueNodeIds'), n) )
          => \E i \in DOMAIN bookmarkMuts' :
                /\ bookmarkMuts'[i].kind = "delete"
                /\ bookmarkMuts'[i].status = "success"
                /\ bookmarkMuts'[i].bookmarkId =
                      BookmarkIdOf(BookmarksMap(bookmarkCheck, issueNodeIds), n)
      ]_vars

\* the bookmark check of the rendered list is being fetched again
CheckRefreshing ==
    \/ bookmarkCheck[issueNodeIds].fetching
    \/ bookmarkCheck[issueNodeIds].invalidated

\* C28: a toggle made before an earlier toggle's mutation of the same item
\* has settled and the bookmark check has been refreshed does not issue a
\* second create for the item, nor a second delete of the same bookmark id.
C28_NoDoubleRequest ==
    [][Len(bookmarkMuts') > Len(bookmarkMuts) =>
          LET m == bookmarkMuts'[Len(bookmarkMuts')]
          IN \A i \in DOMAIN bookmarkMuts :
                ( /\ bookmarkMuts[i].nodeId = m.nodeId
                  /\ \/ bookmarkMuts[i].status = "pending"
                     \/ bookmarkMuts[i].status = "success" /\ CheckRefreshing )
                => \/ bookmarkMuts[i].kind # m.kind
                   \/ /\ m.kind = "delete"
                      /\ bookmarkMuts[i].bookmarkId # m.bookmarkId
      ]_vars

\* C29: for a browser that holds a session_id cookie whose session the API
\* has rejected with 401, the request for /login that the guard causes is
\* not redirected elsewhere: no redirect leads away from /login while the
\* user has not signed in again.
C29_SettlesOnLogin ==
    \A i \in DOMAIN redirectLog :
        (redirectLog[i].rejected /\ redirectLog[i].from = LoginPath)
           => redirectLog[i].to = LoginPath

\* every bookmark of the store has the is_resolved and the notes_count that
\* initialBookmarks gives it in the module text, and as many notes as it counts
StoreRestored ==
    /\ storeBookmarks = InitialBookmarkRefs
    /\ \A i \in DOMAIN storeBookmarks :
          LET id == storeBookmarks[i] IN
          /\ bookmarkObjects[id].is_resolved = InitialBookmarks[id].is_resolved
          /\ bookmarkObjects[id].notes_count = InitialBookmarks[id].notes_count
          /\ bookmarkObjects[id].notes_count = Len(getNotes(id))

\* C30: resetBookmarks restores the mock bookmark store to its initial state:
\* after any sequence of createBookmark, deleteBookmark, updateBookmark,
\* addNote and deleteNote, a call of resetBookmarks leaves every bookmark with
\* its initial is_resolved and notes_count, and notes_count equal to the
\* number of notes stored for the bookmark.
C30_ResetRestoresStore == [][resetBookmarks => StoreRestored']_vars

====
